---------------------------- MODULE Spec2Model ----------------------------
(***************************************************************************)
(* Weekly product-pulse pipeline: the PII gate, the delivery retry loop,   *)
(* the send ledger, review deduplication and theme consolidation.          *)
(*                                                                         *)
(* Text is a sequence of one-character strings, so that the regular        *)
(* expressions of the detectors and of the maskers are computed character  *)
(* by character, as Python's re module computes them (leftmost match,      *)
(* greedy quantifiers, backtracking).                                      *)
(***************************************************************************)
EXTENDS Integers, Sequences, FiniteSets, TLC

(***************************************************************************)
(* Character classes of Python's re (ASCII part).                          *)
(***************************************************************************)
Digit == {"0", "1", "2", "3", "4", "5", "6", "7", "8", "9"}

UpperSeq == << "A", "B", "C", "D", "E", "F", "G", "H", "I", "J", "K", "L", "M",
               "N", "O", "P", "Q", "R", "S", "T", "U", "V", "W", "X", "Y", "Z" >>

LowerSeq == << "a", "b", "c", "d", "e", "f", "g", "h", "i", "j", "k", "l", "m",
               "n", "o", "p", "q", "r", "s", "t", "u", "v", "w", "x", "y", "z" >>

Upper == {UpperSeq[k] : k \in 1..Len(UpperSeq)}

Lower == {LowerSeq[k] : k \in 1..Len(LowerSeq)}

\* [A-Za-z]; also [A-Z] and [a-z] under re.IGNORECASE
Letter == Upper \cup Lower

\* \w
WordChar == Letter \cup Digit \cup {"_"}

\* \s
Space == {" ", "\n", "\t"}

\* [-.\s]
SepChar == {"-", "."} \cup Space

\* [\w\.-]
EmailChar == WordChar \cup {".", "-"}

\* the character at position i, "" outside the text (in no class)
At(s, i) == IF i >= 1 /\ i <= Len(s) THEN s[i] ELSE ""

\* re.IGNORECASE comparison of a text character with a lower-case letter
SameLetter(c, low) ==
    c = low \/ \E k \in 1..Len(UpperSeq) : c = UpperSeq[k] /\ low = LowerSeq[k]

RECURSIVE RunEnd(_, _, _)
\* the first position >= i whose character is not in class C (greedy C*)
RunEnd(s, i, C) == IF At(s, i) \in C THEN RunEnd(s, i + 1, C) ELSE i

AllIn(s, i, n, C) == \A k \in i..(i + n - 1) : At(s, k) \in C

\* position after an optional single character of class C at i (greedy C?)
Opt(s, i, C) == IF At(s, i) \in C THEN i + 1 ELSE i

(***************************************************************************)
(* The patterns.  Each XxxMatchEnd(s, i) is the position just after the    *)
(* match Python finds when it tries the pattern at position i, 0 when the  *)
(* pattern does not match there.                                           *)
(***************************************************************************)

\* [\w\.-]+@[\w\.-]+\.\w+
EmailMatchEnd(s, i) ==
    LET a == RunEnd(s, i, EmailChar)
        b == RunEnd(s, a + 1, EmailChar)
        dots == {q \in (a + 2)..(b - 2) : s[q] = "." /\ At(s, q + 1) \in WordChar}
        last == CHOOSE q \in dots : \A r \in dots : r <= q
    IN  IF a > i /\ At(s, a) = "@" /\ dots # {}
        THEN RunEnd(s, last + 1, WordChar)
        ELSE 0

\* [\w\.-]+@[\w\.-]+\.[A-Za-z]{2,}
EmailTldMatchEnd(s, i) ==
    LET a == RunEnd(s, i, EmailChar)
        b == RunEnd(s, a + 1, EmailChar)
        dots == {q \in (a + 2)..(b - 3) :
                    s[q] = "." /\ At(s, q + 1) \in Letter /\ At(s, q + 2) \in Letter}
        last == CHOOSE q \in dots : \A r \in dots : r <= q
    IN  IF a > i /\ At(s, a) = "@" /\ dots # {}
        THEN RunEnd(s, last + 1, Letter)
        ELSE 0

\* \(?\d{3}\)?[-.\s]?\d{3}[-.\s]?\d{4}
PhoneCoreEnd(s, p) ==
    LET p1 == Opt(s, p, {"("})
        p2 == Opt(s, Opt(s, p1 + 3, {")"}), SepChar)
        p3 == Opt(s, p2 + 3, SepChar)
    IN  IF AllIn(s, p1, 3, Digit) /\ AllIn(s, p2, 3, Digit) /\ AllIn(s, p3, 4, Digit)
        THEN p3 + 4
        ELSE 0

\* \+?\d{nd}[-.\s]? followed by the core
PhonePrefixedEnd(s, i, nd) ==
    LET j == Opt(s, i, {"+"})
    IN  IF AllIn(s, j, nd, Digit)
        THEN PhoneCoreEnd(s, Opt(s, j + nd, SepChar))
        ELSE 0

\* (?:\+?\d{1,3}[-.\s]?)?\(?\d{3}\)?[-.\s]?\d{3}[-.\s]?\d{4}
PhoneMatchEnd(s, i) ==
    IF PhonePrefixedEnd(s, i, 3) > 0 THEN PhonePrefixedEnd(s, i, 3)
    ELSE IF PhonePrefixedEnd(s, i, 2) > 0 THEN PhonePrefixedEnd(s, i, 2)
    ELSE IF PhonePrefixedEnd(s, i, 1) > 0 THEN PhonePrefixedEnd(s, i, 1)
    ELSE PhoneCoreEnd(s, i)

\* \+91-\d{10}
Plus91MatchEnd(s, i) ==
    IF At(s, i) = "+" /\ At(s, i + 1) = "9" /\ At(s, i + 2) = "1" /\ At(s, i + 3) = "-"
       /\ AllIn(s, i + 4, 10, Digit)
    THEN i + 14
    ELSE 0

\* \b\d{10,}\b
LongDigitsMatchEnd(s, i) ==
    LET e == RunEnd(s, i, Digit)
    IN  IF At(s, i - 1) \notin WordChar /\ e - i >= 10 /\ At(s, e) \notin WordChar
        THEN e
        ELSE 0

\* (?:Mr\.|Mrs\.|Ms\.|Dr\.) under re.IGNORECASE
HonorificEnd(s, i) ==
    IF SameLetter(At(s, i), "m") /\ SameLetter(At(s, i + 1), "r") /\ At(s, i + 2) = "."
    THEN i + 3
    ELSE IF SameLetter(At(s, i), "m") /\ SameLetter(At(s, i + 1), "r")
            /\ SameLetter(At(s, i + 2), "s") /\ At(s, i + 3) = "."
    THEN i + 4
    ELSE IF SameLetter(At(s, i), "m") /\ SameLetter(At(s, i + 1), "s") /\ At(s, i + 2) = "."
    THEN i + 3
    ELSE IF SameLetter(At(s, i), "d") /\ SameLetter(At(s, i + 1), "r") /\ At(s, i + 2) = "."
    THEN i + 3
    ELSE 0

\* \b(?:Mr\.|Mrs\.|Ms\.|Dr\.)\s+[A-Z][a-z]+ under re.IGNORECASE
NameMatchEnd(s, i) ==
    LET h == HonorificEnd(s, i)
        w == RunEnd(s, h, Space)
    IN  IF At(s, i - 1) \notin WordChar /\ h > 0 /\ w > h
           /\ At(s, w) \in Letter /\ At(s, w + 1) \in Letter
        THEN RunEnd(s, w + 1, Letter)
        ELSE 0

MatchEnd(pat, s, i) ==
    CASE pat = "EMAIL" -> EmailMatchEnd(s, i)
      [] pat = "EMAIL_TLD" -> EmailTldMatchEnd(s, i)
      [] pat = "PHONE" -> PhoneMatchEnd(s, i)
      [] pat = "PLUS91" -> Plus91MatchEnd(s, i)
      [] pat = "LONG_DIGITS" -> LongDigitsMatchEnd(s, i)
      [] pat = "NAME" -> NameMatchEnd(s, i)

\* pattern.findall(text) is not empty
Found(pat, s) == \E i \in 1..Len(s) : MatchEnd(pat, s, i) > 0

RECURSIVE SubFrom(_, _, _, _)
\* re.sub(pattern, repl, text), scanning from position i
SubFrom(pat, repl, s, i) ==
    IF i > Len(s) THEN << >>
    ELSE LET e == MatchEnd(pat, s, i)
         IN  IF e > 0 THEN repl \o SubFrom(pat, repl, s, e)
             ELSE << s[i] >> \o SubFrom(pat, repl, s, i + 1)

ReSub(pat, repl, s) == SubFrom(pat, repl, s, 1)

(***************************************************************************)
(* Placeholder tokens.                                                     *)
(***************************************************************************)
MaskEmail == << "*", "*", "*", "@", "*", "*", "*", ".", "*", "*", "*" >>

MaskPlus91 == << "+", "9", "1", "-", "*", "*", "*", "*", "*", "*", "*", "*", "*", "*" >>

MaskPhone == << "*", "*", "*", "-", "*", "*", "*", "-", "*", "*", "*", "*" >>

MaskDigits == << "*", "*", "*", "*", "*", "*", "*", "*", "*", "*" >>

MaskName == << "M", "r", ".", "/", "M", "s", ".", " ", "*", "*", "*" >>

Redacted == << "[", "R", "E", "D", "A", "C", "T", "E", "D", "]" >>

\* PIIFinalCheck.check: has_pii
check(text) ==
    Found("EMAIL", text) \/ Found("PHONE", text)
        \/ Found("LONG_DIGITS", text) \/ Found("NAME", text)

\* PIIFinalCheck.verify_email: overall_clean
verify_email(html, plain) == ~(check(html) \/ check(plain))

\* the masking without its pass over honorifics and names
scrub_and_mask_names_kept(text) ==
    ReSub("LONG_DIGITS", MaskDigits,
      ReSub("PHONE", MaskPhone,
        ReSub("PLUS91", MaskPlus91,
          ReSub("EMAIL", MaskEmail, text))))

\* PIIScrubber.scrub_and_mask
scrub_and_mask(text) ==
    ReSub("NAME", MaskName,
      ReSub("LONG_DIGITS", MaskDigits,
        ReSub("PHONE", MaskPhone,
          ReSub("PLUS91", MaskPlus91,
            ReSub("EMAIL", MaskEmail, text)))))

\* emailer.scrub_pii
scrub_pii(text) ==
    IF text = << >> THEN text
    ELSE ReSub("LONG_DIGITS", Redacted,
           ReSub("PHONE", Redacted,
             ReSub("EMAIL_TLD", Redacted, text)))

(***************************************************************************)
(* Bounds of the model.                                                    *)
(***************************************************************************)
\* fragments concatenated into one document text
MaxFragments == 2

\* largest max_retries a DeliverySystem is constructed with
MaxRetriesBound == 3

\* recipients handed to Layer4Pipeline.distribute
MaxRecipients == 1

\* reviews in one batch handed to the Deduplicator
MaxBatch == 2

\* Deduplicator operations (calls and restarts) in one history
MaxOps == 3

\* clusters Layer2Pipeline.process labels
MaxThemeCount == 6

\* reviews in one cluster
MaxSize == 2
\* reviews of one Layer2Pipeline.process call
MaxReviews == 7
\* quotes in the pool of one _select_quotes call
MaxPool == 4
\* themes and action ideas handed to one assemble call
MaxSections == 3
\* /api/run-pipeline requests that are followed
MaxRequests == 3

(***************************************************************************)
(* Program constants.                                                      *)
(***************************************************************************)
\* DeliverySystem(max_retries=3)
DefaultMaxRetries == 3

\* ThemeLimitEnforcer.MAX_THEMES
MAX_THEMES == 5

\* PulseDocumentAssembler.MAX_WORDS
MAX_WORDS == 250

\* DeliverySystem(retry_delay=5)
RetryDelay == 5

VARIABLES
    \* DeliverySystem.send_email: the object's max_retries, whether host, port,
    \* user and password are all set, the position in the call, the loop
    \* variable, the metadata dict, the returned status and error message
    max_retries, smtp_ok, d_pc, attempt, metadata, send_status, send_error,
    \* what the transport and time.sleep have seen, in order
    events,
    \* the delivery entry point that runs, its position, its arguments and locals
    entry, pc, dry_run, doc, html_body, plain_body, body, is_clean,
    recipients_left, results, ret_status, run_status,
    \* number of verify_email calls and of masking passes of the invocation
    n_detect, n_mask,
    \* number of invocations started
    invocations,
    \* email_send_log.csv (SendLogger) and email_log.csv (emailer.log_email_send)
    log_exists, ledger, email_log,
    \* Deduplicator: self.seen_ids, the state file on disk, whether the last
    \* _save_state wrote it, the batch and the result of the last
    \* filter_duplicates call, how often each key was accepted since it was
    \* last lost, the operations so far
    seen_ids, state_file, last_save_ok, last_batch, last_unique, accepted, d_trace,
    \* Layer2Pipeline.process: the themes list, the result of enforce_limit and
    \* the position
    themes, final_themes, l2_pc,
    \* the pulse document PulseDocumentAssembler.assemble returns
    document,
    \* Layer2Pipeline.max_themes
    max_themes,
    \* HDBSCANClusterer.labels_: the cluster of each review, -1 for noise
    labels,
    \* the enriched reviews Layer2Pipeline.process returns
    enriched_reviews,
    \* the reviews ScraperClient.fetch_batch gave to process_batch
    raw_reviews,
    \* what Layer1Pipeline.process_batch returned
    batch_result,
    \* the lines validate_batch printed in the last process_batch call
    stdout,
    \* the quotes QuoteExtractor.extract gave, in theme order
    quote_pool,
    \* what PulseDocumentAssembler._select_quotes returned
    returned_quotes,
    \* the themes with their summaries that assemble is called with
    enriched_themes,
    \* the action ideas that assemble is called with
    action_ideas,
    \* IntegratedPulsePipeline.run: one record per finished run (the report
    \* run returned and what Layer 1 did), and the file _run_layer3 saves
    run_log, artifact,
    \* the last call of a function that is followed on its own: the call site,
    \* its input (for a text-generation site also the reply of the service),
    \* and the value returned
    last_call,
    \* pipeline invocations on one dedup state file: of each its position and
    \* its own seen_ids; and what the file and the reviews went through
    procs, store_hist,
    \* the demo server: execution_status['running'], the position of each
    \* /api/run-pipeline request, the execute_pipeline threads
    demo

send_vars == << max_retries, smtp_ok, d_pc, attempt, metadata, send_status,
                send_error, events >>

caller_vars == << entry, pc, dry_run, doc, html_body, plain_body, body, is_clean,
                  recipients_left, results, ret_status, run_status,
                  n_detect, n_mask, invocations >>

ledger_vars == << log_exists, ledger, email_log >>

dedup_vars == << seen_ids, state_file, last_save_ok, last_batch, last_unique,
                 accepted, d_trace, raw_reviews, batch_result, stdout, run_log, artifact, last_call,
                 procs, store_hist, demo >>

theme_vars == << themes, final_themes, l2_pc, document, max_themes, labels, enriched_reviews, quote_pool, returned_quotes, enriched_themes, action_ideas >>

ingest_io == << raw_reviews, batch_result, stdout >>
run_io == << run_log, artifact >>
call_io == << last_call >>
overlap_io == << procs, store_hist >>
demo_io == << demo >>
stage_io == << run_io, call_io, overlap_io, demo_io >>

l3_in == << enriched_themes, action_ideas >>

vars == << send_vars, caller_vars, ledger_vars, dedup_vars, theme_vars >>

(***************************************************************************)
(* DeliverySystem.send_email                                               *)
(***************************************************************************)
\* what str(e) of a failed attempt can be
ErrTexts == {"e1", "e2"}

\* what one pass through the try block ends with
Outcomes == {"ok", "auth", "smtp", "other"}

\* error_msg of the three except clauses
ErrorMsg(outcome, e) ==
    CASE outcome = "auth" /\ e = "e1" -> "SMTP authentication failed: e1"
      [] outcome = "auth" /\ e = "e2" -> "SMTP authentication failed: e2"
      [] outcome = "smtp" /\ e = "e1" -> "SMTP error: e1"
      [] outcome = "smtp" /\ e = "e2" -> "SMTP error: e2"
      [] outcome = "other" /\ e = "e1" -> "Unexpected error: e1"
      [] outcome = "other" /\ e = "e2" -> "Unexpected error: e2"
      [] OTHER -> ""

\* dict.get(key, default)
Get(d, key, default) == IF key \in DOMAIN d THEN d[key] ELSE default

AttemptEvent(outcome, e) ==
    [kind |-> "attempt", outcome |-> outcome, msg |-> ErrorMsg(outcome, e),
     html |-> html_body, plain |-> plain_body, seconds |-> 0]

SleepEvent ==
    [kind |-> "sleep", outcome |-> "", msg |-> "", html |-> << >>, plain |-> << >>,
     seconds |-> RetryDelay]

\* the configuration check, the metadata dict and the entry into the for loop
send_email_enter ==
    /\ d_pc = "call"
    /\ IF ~smtp_ok
       THEN /\ send_status' = "ERROR"
            /\ send_error' = "Missing SMTP configuration"
            /\ metadata' = << >>
            /\ d_pc' = "returned"
            /\ attempt' = attempt
       ELSE /\ metadata' = [attempts |-> 0, sent_at |-> "None"]
            /\ IF max_retries >= 1
               THEN /\ attempt' = 1
                    /\ d_pc' = "loop"
                    /\ UNCHANGED << send_status, send_error >>
               ELSE /\ send_status' = "ERROR"
                    /\ send_error' = "Max retries exceeded"
                    /\ d_pc' = "returned"
                    /\ attempt' = attempt
    /\ UNCHANGED << max_retries, smtp_ok, events >>

\* the retry test off by one: a failure of the last attempt is retried too
send_email_attempt_retry_last(outcome, e) ==
    /\ d_pc = "loop"
    /\ metadata' = [metadata EXCEPT !.attempts = attempt,
                                    !.sent_at = IF outcome = "ok" THEN "ts" ELSE @]
    /\ IF outcome \in {"ok", "auth"}
       THEN /\ events' = Append(events, AttemptEvent(outcome, e))
            /\ send_status' = IF outcome = "ok" THEN "SENT" ELSE "ERROR"
            /\ send_error' = ErrorMsg(outcome, e)
            /\ d_pc' = "returned"
            /\ attempt' = attempt
       ELSE IF attempt <= max_retries
       THEN /\ events' = events \o << AttemptEvent(outcome, e), SleepEvent >>
            /\ attempt' = attempt + 1
            /\ UNCHANGED << send_status, send_error, d_pc >>
       ELSE /\ events' = Append(events, AttemptEvent(outcome, e))
            /\ send_status' = "ERROR"
            /\ send_error' = ErrorMsg(outcome, e)
            /\ d_pc' = "returned"
            /\ attempt' = attempt
    /\ UNCHANGED << max_retries, smtp_ok >>

\* an authentication error handled by the generic except clause: it is retried
send_email_attempt_auth_retried(outcome, e) ==
    /\ d_pc = "loop"
    /\ metadata' = [metadata EXCEPT !.attempts = attempt,
                                    !.sent_at = IF outcome = "ok" THEN "ts" ELSE @]
    /\ IF outcome = "ok"
       THEN /\ events' = Append(events, AttemptEvent(outcome, e))
            /\ send_status' = "SENT"
            /\ send_error' = ""
            /\ d_pc' = "returned"
            /\ attempt' = attempt
       ELSE IF attempt < max_retries
       THEN /\ events' = events \o << AttemptEvent(outcome, e), SleepEvent >>
            /\ attempt' = attempt + 1
            /\ UNCHANGED << send_status, send_error, d_pc >>
       ELSE /\ events' = Append(events, AttemptEvent(outcome, e))
            /\ send_status' = "ERROR"
            /\ send_error' = ErrorMsg(outcome, e)
            /\ d_pc' = "returned"
            /\ attempt' = attempt
    /\ UNCHANGED << max_retries, smtp_ok >>

\* the send timestamp is not stored on success
send_email_attempt_no_sent_at(outcome, e) ==
    /\ d_pc = "loop"
    /\ metadata' = [metadata EXCEPT !.attempts = attempt]
    /\ IF outcome \in {"ok", "auth"} \/ attempt >= max_retries
       THEN /\ events' = Append(events, AttemptEvent(outcome, e))
            /\ send_status' = IF outcome = "ok" THEN "SENT" ELSE "ERROR"
            /\ send_error' = ErrorMsg(outcome, e)
            /\ d_pc' = "returned"
            /\ attempt' = attempt
       ELSE /\ events' = events \o << AttemptEvent(outcome, e), SleepEvent >>
            /\ attempt' = attempt + 1
            /\ UNCHANGED << send_status, send_error, d_pc >>
    /\ UNCHANGED << max_retries, smtp_ok >>

\* one pass through the body of the for loop
send_email_attempt(outcome, e) ==
    /\ d_pc = "loop"
    /\ IF outcome = "ok"
       THEN /\ metadata' = [metadata EXCEPT !.attempts = attempt, !.sent_at = "ts"]
            /\ events' = Append(events, AttemptEvent(outcome, e))
            /\ send_status' = "SENT"
            /\ send_error' = ""
            /\ d_pc' = "returned"
            /\ attempt' = attempt
       ELSE IF outcome = "auth"
       THEN /\ metadata' = [metadata EXCEPT !.attempts = attempt]
            /\ events' = Append(events, AttemptEvent(outcome, e))
            /\ send_status' = "ERROR"
            /\ send_error' = ErrorMsg(outcome, e)
            /\ d_pc' = "returned"
            /\ attempt' = attempt
       ELSE IF attempt < max_retries
       THEN /\ metadata' = [metadata EXCEPT !.attempts = attempt]
            /\ events' = events \o << AttemptEvent(outcome, e), SleepEvent >>
            /\ attempt' = attempt + 1
            /\ UNCHANGED << send_status, send_error, d_pc >>
       ELSE /\ metadata' = [metadata EXCEPT !.attempts = attempt]
            /\ events' = Append(events, AttemptEvent(outcome, e))
            /\ send_status' = "ERROR"
            /\ send_error' = ErrorMsg(outcome, e)
            /\ d_pc' = "returned"
            /\ attempt' = attempt
    /\ UNCHANGED << max_retries, smtp_ok >>

(***************************************************************************)
(* Deduplicator                                                            *)
(***************************************************************************)
\* the reviews of a batch: a review, one that repeats its reviewId, and one
\* without reviewId; 'at' is the same datetime in all of them
Reviews ==
    {[reviewId |-> "rev1", content |-> "First review"],
     [reviewId |-> "rev1", content |-> "Duplicate of first"],
     [reviewId |-> "", content |-> "Third review"]}

Batches == UNION {[1..n -> Reviews] : n \in 0..MaxBatch}

\* hashlib.sha256(f"{content}|{timestamp}").hexdigest()
Sha256(content) ==
    CASE content = "First review" -> "sha256(First review|at)"
      [] content = "Duplicate of first" -> "sha256(Duplicate of first|at)"
      [] content = "Third review" -> "sha256(Third review|at)"

compute_hash(review) ==
    IF review.reviewId # "" THEN review.reviewId ELSE Sha256(review.content)

Keys == {compute_hash(r) : r \in Reviews}

\* what open(state_file, 'w') and json.dump can end with
SaveOutcomes == {"ok", "open_failed", "write_failed"}

\* the file is written once and never rewritten
save_state_first_only(ids, outcome) ==
    CASE outcome = "ok" -> IF state_file.status = "absent"
                           THEN [status |-> "ok", ids |-> ids]
                           ELSE state_file
      [] outcome = "open_failed" -> state_file
      [] outcome = "write_failed" -> [status |-> "corrupt", ids |-> {}]

\* the file after _save_state: rewritten whole, untouched when it cannot be
\* opened, truncated when the write breaks off
save_state(ids, outcome) ==
    CASE outcome = "ok" -> [status |-> "ok", ids |-> ids]
      [] outcome = "open_failed" -> state_file
      [] outcome = "write_failed" -> [status |-> "corrupt", ids |-> {}]

\* _load_state: the ids of a readable file, else the empty set
load_state(read_ok) ==
    IF state_file.status = "ok" /\ read_ok THEN state_file.ids ELSE {}

\* the for loop of filter_duplicates from review i on
RECURSIVE FilterLoop(_, _, _)
FilterLoop(reviews, i, st) ==
    IF i > Len(reviews) THEN st
    ELSE LET rid == compute_hash(reviews[i]) IN
         FilterLoop(reviews, i + 1,
             IF rid \notin st.seen
             THEN [unique |-> Append(st.unique, reviews[i]),
                   new_ids |-> Append(st.new_ids, rid),
                   seen |-> st.seen \cup {rid}]
             ELSE st)

Occurrences(ids, k) == Cardinality({i \in DOMAIN ids : ids[i] = k})

\* seen_ids is updated after the loop only: a key repeated in the batch passes twice
filter_duplicates_late_add(reviews, outcome) ==
    /\ Len(d_trace) < MaxOps
    /\ LET keep == {i \in DOMAIN reviews : compute_hash(reviews[i]) \notin seen_ids}
           IsKept(r) == compute_hash(r) \notin seen_ids
           unique == SelectSeq(reviews, IsKept)
           new_ids == [i \in DOMAIN unique |-> compute_hash(unique[i])]
       IN  /\ seen_ids' = seen_ids \cup {compute_hash(reviews[i]) : i \in keep}
           /\ last_unique' = unique
           /\ last_batch' = reviews
           /\ accepted' = [k \in Keys |-> accepted[k] + Occurrences(new_ids, k)]
           /\ IF new_ids # << >>
              THEN /\ state_file' = save_state(seen_ids', outcome)
                   /\ last_save_ok' = (outcome = "ok")
              ELSE UNCHANGED << state_file, last_save_ok >>
    /\ d_trace' = Append(d_trace, "filter_duplicates")
    /\ UNCHANGED << send_vars, caller_vars, ledger_vars, theme_vars >>

filter_duplicates(reviews, outcome) ==
    /\ Len(d_trace) < MaxOps
    /\ LET r == FilterLoop(reviews, 1,
                    [unique |-> << >>, new_ids |-> << >>, seen |-> seen_ids])
       IN  /\ seen_ids' = r.seen
           /\ last_unique' = r.unique
           /\ last_batch' = reviews
           /\ accepted' = [k \in Keys |-> accepted[k] + Occurrences(r.new_ids, k)]
           /\ IF r.new_ids # << >>
              THEN /\ state_file' = save_state(r.seen, outcome)
                   /\ last_save_ok' = (outcome = "ok")
              ELSE UNCHANGED << state_file, last_save_ok >>
    /\ d_trace' = Append(d_trace, "filter_duplicates")
    /\ UNCHANGED << send_vars, caller_vars, ledger_vars, theme_vars >>

mark_as_seen(reviews, outcome) ==
    /\ Len(d_trace) < MaxOps
    /\ seen_ids' = seen_ids \cup {compute_hash(reviews[i]) : i \in DOMAIN reviews}
    /\ state_file' = save_state(seen_ids', outcome)
    /\ last_save_ok' = (outcome = "ok")
    /\ d_trace' = Append(d_trace, "mark_as_seen")
    /\ UNCHANGED << last_batch, last_unique, accepted, ingest_io, stage_io >>
    /\ UNCHANGED << send_vars, caller_vars, ledger_vars, theme_vars >>

\* a new process: Deduplicator.__init__ loads the file. The keys that the
\* file does not give back (a failed save, a failed read) are forgotten.
Deduplicator_init(read_ok) ==
    /\ Len(d_trace) < MaxOps
    /\ seen_ids' = load_state(read_ok)
    /\ accepted' = IF last_save_ok /\ (state_file.status = "absent" \/ read_ok)
                   THEN accepted
                   ELSE [k \in Keys |-> IF k \in seen_ids' THEN accepted[k] ELSE 0]
    /\ last_save_ok' = TRUE
    /\ d_trace' = Append(d_trace, "restart")
    /\ UNCHANGED << state_file, last_batch, last_unique, ingest_io, stage_io >>
    /\ UNCHANGED << send_vars, caller_vars, ledger_vars, theme_vars >>

(***************************************************************************)
(* SchemaValidator, PIIDetector and Layer1Pipeline.process_batch           *)
(***************************************************************************)
REQUIRED_FIELDS == << "reviewId", "content", "score", "at" >>

AllFields == {REQUIRED_FIELDS[i] : i \in DOMAIN REQUIRED_FIELDS}

WellTyped == [reviewId |-> "str", content |-> "str", score |-> "int", at |-> "datetime"]

\* a scraped record: the fields it has, the Python type of each value, and
\* the values (of a field that is missing or of another type the value is
\* not looked at)
RawReview(id, text, score, fields, py) ==
    [reviewId |-> id, content |-> text, score |-> score, at |-> "2024-01-01T00:00:00",
     fields |-> fields, py |-> py]

\* two well-formed records, and one record for each way to fail a check
RawReviews ==
    {RawReview("rev1", "First review", 5, AllFields, WellTyped),
     RawReview("rev2", "Mail a@b.co", 1, AllFields, WellTyped),
     RawReview("rev3", "No timestamp", 4, AllFields \ {"at"}, WellTyped),
     RawReview("", "Empty id", 3, AllFields, WellTyped),
     RawReview("rev5", "", 2, AllFields, [WellTyped EXCEPT !.content = "NoneType"]),
     RawReview("rev6", "Six stars", 6, AllFields, WellTyped),
     RawReview("rev7", "Date as text", 5, AllFields, [WellTyped EXCEPT !.at = "str"])}

RawBatches == UNION {[1..n -> RawReviews] : n \in 0..MaxBatch}

\* SchemaValidator.validate: (is_valid, error_message)
validate(review) ==
    IF \E f \in AllFields : f \notin review.fields
        THEN [is_valid |-> FALSE, error |-> "Missing required fields"]
    ELSE IF review.py.reviewId # "str" \/ review.reviewId = ""
        THEN [is_valid |-> FALSE, error |-> "reviewId must be a non-empty string"]
    ELSE IF review.py.content # "str"
        THEN [is_valid |-> FALSE, error |-> "content must be a string"]
    ELSE IF review.py.score \notin {"int", "float", "bool"}
            \/ ~(1 <= review.score /\ review.score <= 5)
        THEN [is_valid |-> FALSE, error |-> "score must be between 1 and 5"]
    ELSE IF review.py.at # "datetime"
        THEN [is_valid |-> FALSE, error |-> "at must be a datetime object"]
    ELSE [is_valid |-> TRUE, error |-> ""]

IsValid(review) == validate(review).is_valid

\* SchemaValidator.validate_batch: the valid reviews; the others are printed
validate_batch(reviews) == SelectSeq(reviews, IsValid)

RECURSIVE PrintInvalid(_)
PrintInvalid(reviews) ==
    IF reviews = << >> THEN << >>
    ELSE IF IsValid(Head(reviews)) THEN PrintInvalid(Tail(reviews))
    ELSE << [reviewId |-> IF "reviewId" \in Head(reviews).fields
                          THEN Head(reviews).reviewId ELSE "UNKNOWN",
             error |-> validate(Head(reviews)).error] >>
         \o PrintInvalid(Tail(reviews))

\* PIIDetector.contains_pii on the texts of RawReviews
contains_pii(text) == text = "Mail a@b.co"

\* PIIDetector.flag_pii_reviews; the record's remaining fields stay
flag_pii_reviews(reviews) ==
    [i \in DOMAIN reviews |->
        [reviewId |-> reviews[i].reviewId, content |-> reviews[i].content,
         score |-> reviews[i].score, at |-> reviews[i].at,
         fields |-> reviews[i].fields, py |-> reviews[i].py,
         pii_detected |-> contains_pii(reviews[i].content)]]

\* Layer1Pipeline.process_batch: fetch, validate, flag, deduplicate
process_batch(fetched, fetch_ok, outcome) ==
    LET raw == IF fetch_ok THEN fetched ELSE << >>
        token == IF fetch_ok THEN "token" ELSE "None"
    IN  /\ raw_reviews' = raw
        /\ UNCHANGED stage_io
        /\ IF raw = << >>
           THEN /\ Len(d_trace) < MaxOps
                /\ batch_result' = [reviews |-> << >>, token |-> token]
                /\ stdout' = << >>
                /\ UNCHANGED << seen_ids, state_file, last_save_ok, last_batch,
                                last_unique, accepted >>
                /\ d_trace' = Append(d_trace, "process_batch")
                /\ UNCHANGED << send_vars, caller_vars, ledger_vars, theme_vars >>
           ELSE /\ stdout' = PrintInvalid(raw)
                /\ filter_duplicates(flag_pii_reviews(validate_batch(raw)), outcome)
                /\ batch_result' = [reviews |-> last_unique', token |-> token]

\* two processes, each running the pipeline again and again
Invocations == {1, 2}

IdleDedup ==
    /\ seen_ids = {}
    /\ state_file = [status |-> "absent", ids |-> {}]
    /\ last_save_ok = TRUE
    /\ last_batch = << >>
    /\ last_unique = << >>
    /\ accepted = [k \in Keys |-> 0]
    /\ d_trace = << >>
    /\ raw_reviews = << >>
    /\ batch_result = << >>
    /\ stdout = << >>
    /\ run_log = << >>
    /\ artifact = 0
    /\ last_call = [site |-> "none"]
    /\ procs = [p \in Invocations |-> [pc |-> "idle", seen |-> {}]]
    /\ store_hist = [written |-> {}, count |-> [k \in Keys |-> 0],
                     overlapped |-> FALSE, io_failed |-> FALSE, starts |-> 0]
    /\ demo = [running |-> FALSE, req |-> [r \in 1..MaxRequests |-> "new"],
               threads |-> 0, stage |-> ""]

(***************************************************************************)
(* ThemeLimitEnforcer and the themes Layer2Pipeline.process hands to it    *)
(***************************************************************************)
\* theme names ThemeLabeler.label_cluster can return
ThemeNames == {"Login Issues", "Other"}

\* the input of the consolidation example
ExampleThemes ==
    << [cluster_id |-> 0, theme_name |-> "Login Issues", size |-> 45],
       [cluster_id |-> 1, theme_name |-> "Login Issues", size |-> 38],
       [cluster_id |-> 2, theme_name |-> "Login Issues", size |-> 32],
       [cluster_id |-> 3, theme_name |-> "Login Issues", size |-> 28],
       [cluster_id |-> 4, theme_name |-> "Login Issues", size |-> 22],
       [cluster_id |-> 5, theme_name |-> "Login Issues", size |-> 15],
       [cluster_id |-> 6, theme_name |-> "Login Issues", size |-> 12],
       [cluster_id |-> 7, theme_name |-> "Login Issues", size |-> 8] >>

\* one step of the stable sort: t goes behind every theme at least as large
RECURSIVE InsertBySize(_, _)

InsertBySize(t, ts) ==
    IF ts = << >> THEN << t >>
    ELSE IF Head(ts).size >= t.size THEN << Head(ts) >> \o InsertBySize(t, Tail(ts))
    ELSE << t >> \o ts

\* sorted(themes, key=lambda x: x['size'], reverse=True)
RECURSIVE sorted(_, _)
sorted(ts, n) ==
    IF n = 0 THEN << >> ELSE InsertBySize(ts[n], sorted(ts, n - 1))

RECURSIVE SumSizes(_)
SumSizes(ts) == IF ts = << >> THEN 0 ELSE Head(ts).size + SumSizes(Tail(ts))

enforce_limit(ts) ==
    IF Len(ts) <= MAX_THEMES THEN sorted(ts, Len(ts))
    ELSE LET sorted_themes == sorted(ts, Len(ts))
             top_themes == SubSeq(sorted_themes, 1, MAX_THEMES - 1)
             merged_themes == SubSeq(sorted_themes, MAX_THEMES, Len(sorted_themes))
             other_theme == [cluster_id |-> -2, theme_name |-> "Other",
                             size |-> SumSizes(merged_themes),
                             merged_from |-> [i \in DOMAIN merged_themes |->
                                                 merged_themes[i].cluster_id]]
         IN  top_themes \o << other_theme >>

\* Step 3 of process: the next cluster, in ascending cluster id, gets its label
process_label_cluster(name, size) ==
    /\ l2_pc = "labeling"
    /\ Len(themes) < MaxThemeCount
    /\ themes' = Append(themes,
           [cluster_id |-> Len(themes), theme_name |-> name, size |-> size])
    /\ UNCHANGED << final_themes, l2_pc, document, max_themes, labels, enriched_reviews, quote_pool, returned_quotes >>
    /\ UNCHANGED l3_in
    /\ UNCHANGED << send_vars, caller_vars, ledger_vars, dedup_vars >>

\* Step 4 of process: final_themes = ThemeLimitEnforcer.enforce_limit(themes, ...)
process_enforce_limit ==
    /\ l2_pc = "labeling"
    /\ final_themes' = enforce_limit(themes)
    /\ l2_pc' = "done"
    /\ UNCHANGED << themes, document, max_themes, labels, enriched_reviews, quote_pool, returned_quotes >>
    /\ UNCHANGED l3_in
    /\ UNCHANGED << send_vars, caller_vars, ledger_vars, dedup_vars >>

(***************************************************************************)
(* PulseDocumentAssembler                                                  *)
(*                                                                         *)
(* A theme summary is a sequence of characters. A text that the assembler  *)
(* only counts (title, overview, quote, action) is a record with its       *)
(* identity and len(text.split()).                                         *)
(***************************************************************************)
\* len(text.split()) of a sequence of characters
RECURSIVE CountWordsFrom(_, _)
CountWordsFrom(s, i) ==
    IF i > Len(s) THEN 0
    ELSE (IF s[i] \notin Space /\ (i = 1 \/ s[i - 1] \in Space) THEN 1 ELSE 0)
         + CountWordsFrom(s, i + 1)

CountWords(s) == CountWordsFrom(s, 1)

\* the index of the first '. ' in a summary, 0 when there is none
RECURSIVE FindDotSpace(_, _)
FindDotSpace(s, i) ==
    IF i >= Len(s) THEN 0
    ELSE IF s[i] = "." /\ s[i + 1] = " " THEN i
    ELSE FindDotSpace(s, i + 1)

\* the compression leaves every summary as it is
FirstSentence_whole(summary) == summary

\* summary.split('. ')[0] + '.' if '. ' in summary else summary
FirstSentence(summary) ==
    LET i == FindDotSpace(summary, 1)
    IN  IF i = 0 THEN summary ELSE SubSeq(summary, 1, i - 1) \o << "." >>

\* len(f"{name}:".split()) of the theme names of the model
NameWords(name) == IF name = "Login Issues" THEN 2 ELSE 1

\* 'Weekly Product Pulse - Groww'
generate_title == [text |-> "title", words |-> 5]

generate_overview(ts) ==
    LET n == 19 + (IF ts = << >> THEN 2 ELSE NameWords(ts[1].theme_name))
    IN  [text |-> "overview", words |-> IF n > 60 THEN 60 ELSE n]

\* the first loop of _select_quotes from theme i on
RECURSIVE SelectPerTheme(_, _, _, _)
SelectPerTheme(all_quotes, top_themes, i, selected) ==
    IF i > Len(top_themes) THEN selected
    ELSE LET HasTheme(q) == q.theme = top_themes[i].theme_name
             theme_quotes == SelectSeq(all_quotes, HasTheme)
         IN  SelectPerTheme(all_quotes, top_themes, i + 1,
                 IF theme_quotes # << >> /\ Len(selected) < 3
                 THEN Append(selected, theme_quotes[1])
                 ELSE selected)

\* the second loop of _select_quotes from quote i on
RECURSIVE FillSlots(_, _, _)
FillSlots(all_quotes, i, selected) ==
    IF i > Len(all_quotes) THEN selected
    ELSE FillSlots(all_quotes, i + 1,
             IF (\A j \in DOMAIN selected : selected[j] # all_quotes[i])
                /\ Len(selected) < 3
             THEN Append(selected, all_quotes[i])
             ELSE selected)

select_quotes(all_quotes, top_themes) ==
    LET selected == FillSlots(all_quotes, 1,
                        SelectPerTheme(all_quotes, top_themes, 1, << >>))
    IN  SubSeq(selected, 1, IF Len(selected) < 3 THEN Len(selected) ELSE 3)

RECURSIVE SumWords(_)
SumWords(texts) == IF texts = << >> THEN 0 ELSE Head(texts).words + SumWords(Tail(texts))

RECURSIVE SumThemeWords(_)
SumThemeWords(ts) ==
    IF ts = << >> THEN 0
    ELSE NameWords(Head(ts).name) + CountWords(Head(ts).summary)
         + SumThemeWords(Tail(ts))

count_words(doc_) ==
    doc_.title.words + doc_.overview.words + SumThemeWords(doc_.themes)
    + SumWords(doc_.quotes) + SumWords(doc_.actions)

\* the count taken before the compression is kept
enforce_word_limit_stale_count(doc_) ==
    LET word_count == count_words(doc_)
    IN  IF word_count <= MAX_WORDS
        THEN [doc_ EXCEPT !.metadata.word_count = word_count]
        ELSE [doc_ EXCEPT !.themes =
                              [i \in DOMAIN doc_.themes |->
                                  [doc_.themes[i] EXCEPT !.summary = FirstSentence(@)]],
                          !.metadata.word_count = word_count]

enforce_word_limit(doc_) ==
    LET word_count == count_words(doc_)
    IN  IF word_count <= MAX_WORDS
        THEN [doc_ EXCEPT !.metadata.word_count = word_count]
        ELSE LET compressed ==
                     [doc_ EXCEPT !.themes =
                         [i \in DOMAIN doc_.themes |->
                             [doc_.themes[i] EXCEPT !.summary = FirstSentence(@)]]]
             IN  [compressed EXCEPT !.metadata.word_count = count_words(compressed)]

\* the document dict of assemble before the word limit is looked at
build_document(ts, quotes, actions) ==
    LET top_themes == SubSeq(ts, 1, IF Len(ts) < 3 THEN Len(ts) ELSE 3)
        selected_quotes == select_quotes(quotes, top_themes)
    IN  [title |-> generate_title,
         overview |-> generate_overview(ts),
         themes |-> [i \in DOMAIN top_themes |->
                        [name |-> top_themes[i].theme_name,
                         summary |-> top_themes[i].summary,
                         size |-> top_themes[i].size]],
         quotes |-> [i \in DOMAIN selected_quotes |-> selected_quotes[i].text],
         actions |-> SubSeq(actions, 1, IF Len(actions) < 3 THEN Len(actions) ELSE 3),
         metadata |-> [total_reviews |-> SumSizes(ts), word_count |-> 0]]

assemble(ts, quotes, actions) == enforce_word_limit(build_document(ts, quotes, actions))

\* a summary ThemeSummarizer.summarize returns
ShortSummary == << "o", "k", "." >>

\* Layer3Pipeline.process on the themes of Layer 2: every theme gets its
\* summary, the assembler gets the themes in the order of theme_metadata
layer3_process ==
    /\ l2_pc = "done"
    /\ enriched_themes' =
           [i \in DOMAIN final_themes |->
               [cluster_id |-> final_themes[i].cluster_id,
                theme_name |-> final_themes[i].theme_name,
                size |-> final_themes[i].size,
                summary |-> ShortSummary]]
    /\ document' = assemble(enriched_themes', << >>, << >>)
    /\ l2_pc' = "assembled"
    /\ UNCHANGED << themes, final_themes, max_themes, labels, enriched_reviews, quote_pool, returned_quotes >>
    /\ UNCHANGED action_ideas
    /\ UNCHANGED << send_vars, caller_vars, ledger_vars, dedup_vars >>

(***************************************************************************)
(* Layer2Pipeline.process from the cluster labels to the enriched reviews  *)
(***************************************************************************)
\* the names the labeler gives, one per cluster; cluster 1 is named "Other"
LabelNames ==
    << "Login Issues", "Other", "App Crashes", "Payments",
       "Slow Loading", "Support", "Updates", "Design" >>

label_cluster(cluster_id) == LabelNames[(cluster_id % Len(LabelNames)) + 1]

\* set(labels) - {-1}
unique_labels(ls) == {ls[i] : i \in DOMAIN ls} \ {-1}

\* sorted(unique_labels)
RECURSIVE SortedLabels(_)
SortedLabels(S) ==
    IF S = {} THEN << >>
    ELSE LET least == CHOOSE c \in S : \A x \in S : c <= x
         IN  << least >> \o SortedLabels(S \ {least})

\* Step 3: one theme per cluster, its size the number of reviews of the cluster
label_themes(ls) ==
    LET ids == SortedLabels(unique_labels(ls))
    IN  [k \in DOMAIN ids |->
            [cluster_id |-> ids[k],
             theme_name |-> label_cluster(ids[k]),
             size |-> Cardinality({i \in DOMAIN ls : ls[i] = ids[k]})]]

\* next((t for t in final_themes if t['cluster_id'] == cluster_id), None);
\* << >> stands for None
FirstTheme(fts, cluster_id) ==
    LET found == {k \in DOMAIN fts : fts[k].cluster_id = cluster_id}
    IN  IF found = {} THEN << >>
        ELSE fts[CHOOSE k \in found : \A x \in found : k <= x]

\* the loop body that enriches review i: merged reviews take the name of the
\* -2 bucket
enrich_review_noise_other(fts, ls, i) ==
    LET cluster_id == ls[i]
        theme_obj == FirstTheme(fts, cluster_id)
        bucket == FirstTheme(fts, -2)
        theme_name ==
            IF theme_obj # << >> THEN theme_obj.theme_name
            ELSE IF bucket # << >> THEN bucket.theme_name
            ELSE "Other"
    IN  [review |-> i, theme |-> theme_name, cluster_id |-> cluster_id]

enrich_review(fts, ls, i) ==
    LET cluster_id == ls[i]
        theme_obj == FirstTheme(fts, cluster_id)
        bucket == FirstTheme(fts, -2)
        theme_name ==
            IF cluster_id = -1 THEN "Noise"
            ELSE IF theme_obj # << >> THEN theme_obj.theme_name
            ELSE IF bucket # << >> THEN bucket.theme_name
            ELSE "Other"
    IN  [review |-> i, theme |-> theme_name, cluster_id |-> cluster_id]

\* Step 2: the clusterer gives the next review its label; clusters are
\* numbered from 0 without gaps
clusterer_fit(label) ==
    /\ l2_pc = "clustering"
    /\ Len(labels) < MaxReviews
    /\ label <= Cardinality(unique_labels(labels))
    /\ label < MaxThemeCount
    /\ labels' = Append(labels, label)
    /\ UNCHANGED << themes, final_themes, l2_pc, document, max_themes, enriched_reviews, quote_pool, returned_quotes >>
    /\ UNCHANGED l3_in
    /\ UNCHANGED << send_vars, caller_vars, ledger_vars, dedup_vars >>

\* Steps 3 and 4 and the enrichment loop of process
layer2_process ==
    /\ l2_pc = "clustering"
    /\ themes' = label_themes(labels)
    /\ final_themes' = enforce_limit(themes')
    /\ enriched_reviews' = [i \in DOMAIN labels |-> enrich_review(final_themes', labels, i)]
    /\ l2_pc' = "enriched"
    /\ UNCHANGED << document, max_themes, labels, quote_pool, returned_quotes >>
    /\ UNCHANGED l3_in
    /\ UNCHANGED << send_vars, caller_vars, ledger_vars, dedup_vars >>

(***************************************************************************)
(* ThemeLimitEnforcer.enforce_limit called on a list in any order          *)
(***************************************************************************)
\* the caller's list grows by a theme
input_theme(size) ==
    /\ l2_pc = "input"
    /\ Len(themes) < MaxThemeCount
    /\ themes' = Append(themes,
           [cluster_id |-> Len(themes), theme_name |-> "Login Issues", size |-> size])
    /\ UNCHANGED << final_themes, l2_pc, document, max_themes, labels, enriched_reviews, quote_pool, returned_quotes >>
    /\ UNCHANGED l3_in
    /\ UNCHANGED << send_vars, caller_vars, ledger_vars, dedup_vars >>

\* the caller hands the list over in another order
input_reorder(i, j) ==
    /\ l2_pc = "input"
    /\ i \in DOMAIN themes /\ j \in DOMAIN themes /\ i < j
    /\ themes' = [themes EXCEPT ![i] = themes[j], ![j] = themes[i]]
    /\ l2_pc' = "reordered"
    /\ UNCHANGED << final_themes, document, max_themes, labels, enriched_reviews, quote_pool, returned_quotes >>
    /\ UNCHANGED l3_in
    /\ UNCHANGED << send_vars, caller_vars, ledger_vars, dedup_vars >>

call_enforce_limit ==
    /\ l2_pc \in {"input", "reordered"}
    /\ final_themes' = enforce_limit(themes)
    /\ l2_pc' = "done"
    /\ UNCHANGED << themes, document, max_themes, labels, enriched_reviews, quote_pool, returned_quotes >>
    /\ UNCHANGED l3_in
    /\ UNCHANGED << send_vars, caller_vars, ledger_vars, dedup_vars >>

(***************************************************************************)
(* PulseDocumentAssembler._select_quotes on a pool of quotes               *)
(***************************************************************************)
\* the reviews quotes are taken from
QuoteSources == {"r1", "r2"}

\* a quote dict of QuoteExtractor.extract
Quote(theme_name, source_id) ==
    [text |-> [text |-> source_id, words |-> 10], source_id |-> source_id,
     theme |-> theme_name]

\* a theme of the (at most three) top themes
quotes_top_theme(name) ==
    /\ l2_pc = "quotes"
    /\ Len(themes) < 3
    /\ quote_pool = << >>
    /\ themes' = Append(themes, [cluster_id |-> Len(themes), theme_name |-> name, size |-> 1])
    /\ UNCHANGED << final_themes, l2_pc, document, max_themes, labels, enriched_reviews,
                    quote_pool, returned_quotes >>
    /\ UNCHANGED l3_in
    /\ UNCHANGED << send_vars, caller_vars, ledger_vars, dedup_vars >>

\* the pool grows by a quote
quotes_extend(theme_name, source_id) ==
    /\ l2_pc = "quotes"
    /\ Len(quote_pool) < MaxPool
    /\ quote_pool' = Append(quote_pool, Quote(theme_name, source_id))
    /\ UNCHANGED << themes, final_themes, l2_pc, document, max_themes, labels,
                    enriched_reviews, returned_quotes >>
    /\ UNCHANGED l3_in
    /\ UNCHANGED << send_vars, caller_vars, ledger_vars, dedup_vars >>

call_select_quotes ==
    /\ l2_pc = "quotes"
    /\ returned_quotes' = select_quotes(quote_pool, themes)
    /\ l2_pc' = "selected"
    /\ UNCHANGED << themes, final_themes, document, max_themes, labels, enriched_reviews,
                    quote_pool >>
    /\ UNCHANGED l3_in
    /\ UNCHANGED << send_vars, caller_vars, ledger_vars, dedup_vars >>

(***************************************************************************)
(* PulseDocumentAssembler.assemble on summaries, quotes and action ideas   *)
(***************************************************************************)
\* summaries: one sentence, two sentences, no full stop, a leading full stop
Summaries ==
    { << "a", "." >>,
      << "a", " ", "a", ".", " ", "a" >>,
      << "a", " ", "a" >>,
      << ".", " ", "a" >> }

\* the lengths in words of an action idea: a sentence, a paragraph
ActionWords == {10, 100}

\* Step 2 of Layer3Pipeline.process: the next theme gets its summary
summarize_theme(summary) ==
    /\ l2_pc = "assembling"
    /\ Len(enriched_themes) < MaxSections
    /\ enriched_themes' = Append(enriched_themes,
           [cluster_id |-> Len(enriched_themes), theme_name |-> "Login Issues",
            size |-> 1, summary |-> summary])
    /\ UNCHANGED << themes, final_themes, l2_pc, document, max_themes, labels,
                    enriched_reviews, quote_pool, returned_quotes, action_ideas >>
    /\ UNCHANGED << send_vars, caller_vars, ledger_vars, dedup_vars >>

\* Step 1: a quote of the theme is extracted
extract_quote ==
    /\ l2_pc = "assembling"
    /\ Len(quote_pool) < MaxPool
    /\ quote_pool' = Append(quote_pool, Quote("Login Issues", "r1"))
    /\ UNCHANGED << themes, final_themes, l2_pc, document, max_themes, labels,
                    enriched_reviews, returned_quotes, enriched_themes, action_ideas >>
    /\ UNCHANGED << send_vars, caller_vars, ledger_vars, dedup_vars >>

\* Step 3: an action idea
generate_action(words) ==
    /\ l2_pc = "assembling"
    /\ Len(action_ideas) < MaxSections
    /\ action_ideas' = Append(action_ideas, [text |-> "action", words |-> words])
    /\ UNCHANGED << themes, final_themes, l2_pc, document, max_themes, labels,
                    enriched_reviews, quote_pool, returned_quotes, enriched_themes >>
    /\ UNCHANGED << send_vars, caller_vars, ledger_vars, dedup_vars >>

\* Step 4: self.assembler.assemble(enriched_themes, all_quotes, actions)
call_assemble ==
    /\ l2_pc = "assembling"
    /\ document' = assemble(enriched_themes, quote_pool, action_ideas)
    /\ l2_pc' = "assembled"
    /\ UNCHANGED << themes, final_themes, max_themes, labels, enriched_reviews,
                    quote_pool, returned_quotes, enriched_themes, action_ideas >>
    /\ UNCHANGED << send_vars, caller_vars, ledger_vars, dedup_vars >>

IdleThemes ==
    /\ themes = << >>
    /\ final_themes = << >>
    /\ l2_pc = "idle"
    /\ document = << >>
    /\ max_themes = MAX_THEMES
    /\ labels = << >>
    /\ enriched_reviews = << >>
    /\ quote_pool = << >>
    /\ returned_quotes = << >>
    /\ enriched_themes = << >>
    /\ action_ideas = << >>

(***************************************************************************)
(* Document texts and their rendering.                                     *)
(***************************************************************************)
FragOk == << "o", "k" >>

FragBlank == << " " >>

FragEmail == << "u", "s", "e", "r", "@", "e", "x", "a", "m", "p", "l", "e", ".", "c", "o", "m" >>

FragShortEmail == << "a", "@", "b", ".", "c" >>

FragPhone == << "5", "5", "5", "-", "1", "2", "3", "-", "4", "5", "6", "7" >>

FragDigits == << "1", "2", "3", "4", "5", "6", "7", "8", "9", "0" >>

FragName == << "D", "r", ".", " ", "S", "m", "i", "t", "h" >>

FragPlus91 == << "+", "9", "1", "-", "9", "8", "7", "6", "5", "4", "3", "2", "1", "0" >>

\* pieces of text that titles, overviews, summaries, quotes and actions are made of
Fragments == {FragOk, FragBlank, FragEmail, FragShortEmail, FragPhone, FragDigits,
              FragName, FragPlus91}

RECURSIVE Flatten(_)
Flatten(fs) == IF fs = << >> THEN << >> ELSE Head(fs) \o Flatten(Tail(fs))

\* the texts a pulse document can carry
Docs == {Flatten(fs) : fs \in UNION {[1..k -> Fragments] : k \in 0..MaxFragments}}

\* EmailTemplateRenderer.render_html: static markup around the document's text
render_html(d) == << "<", "p", ">" >> \o d \o << "<", "/", "p", ">" >>

\* EmailTemplateRenderer.render_plain_text: static lines around the document's text
render_plain_text(d) == << "1", ".", " " >> \o d \o << "\n" >>

\* emailer.draft_weekly_email: the formatter's lines around the note's text
draft_weekly_email(d) == << "-", " " >> \o d \o << "\n" >>

(***************************************************************************)
(* PIIFinalCheck and PIIScrubber on a body                                 *)
(***************************************************************************)
\* the texts of Fragments and the placeholder tokens themselves
MaskFragments ==
    Fragments \cup {MaskEmail, MaskPlus91, MaskPhone, MaskDigits, MaskName}

Bodies == {Flatten(fs) : fs \in UNION {[1..k -> MaskFragments] : k \in 0..MaxFragments}}

\* PIIFinalCheck.verify_email(body, body)
pii_verify ==
    /\ entry = "pii" /\ pc = "m_verify"
    /\ is_clean' = verify_email(body, body)
    /\ n_detect' = n_detect + 1
    /\ pc' = "m_scrub"
    /\ UNCHANGED << send_vars, ledger_vars, entry, dry_run, doc, html_body,
                    plain_body, body, recipients_left, results, ret_status,
                    run_status, n_mask, invocations >>
    /\ UNCHANGED << dedup_vars, theme_vars >>

\* PIIScrubber.scrub_and_mask(body), then verify_email on the masked body
pii_scrub_and_verify ==
    /\ entry = "pii" /\ pc = "m_scrub"
    /\ body' = scrub_and_mask(body)
    /\ is_clean' = verify_email(body', body')
    /\ n_mask' = n_mask + 1
    /\ n_detect' = n_detect + 1
    /\ pc' = "m_done"
    /\ UNCHANGED << send_vars, ledger_vars, entry, dry_run, doc, html_body,
                    plain_body, recipients_left, results, ret_status,
                    run_status, invocations >>
    /\ UNCHANGED << dedup_vars, theme_vars >>

(***************************************************************************)
(* SendLogger                                                              *)
(***************************************************************************)
\* the row log_send writes (week, subject and recipient left out); the
\* timestamp is the number of the invocation that writes it
LedgerRow(status, attempts, error_message, pii_clean) ==
    [timestamp |-> invocations, status |-> status, attempts |-> attempts,
     error_message |-> error_message, pii_clean |-> pii_clean]

\* a row an earlier run has left in the file
OldRow ==
    [timestamp |-> 0, status |-> "SENT", attempts |-> 1, error_message |-> "",
     pii_clean |-> TRUE]

(***************************************************************************)
(* send_pulse_email, called by IntegratedPulsePipeline._run_layer4         *)
(***************************************************************************)
\* an exception leaves the function: nothing is returned
Raise ==
    /\ ret_status' = "RAISED"
    /\ pc' = "returned"

\* logger = SendLogger(): _ensure_log_exists creates the file when it is missing
sp_logger(io_ok) ==
    /\ entry = "send_pulse_email" /\ pc = "s_logger"
    /\ IF log_exists
       THEN /\ pc' = "s_render"
            /\ UNCHANGED << ret_status, log_exists >>
       ELSE IF io_ok
       THEN /\ log_exists' = TRUE
            /\ pc' = "s_render"
            /\ UNCHANGED ret_status
       ELSE /\ Raise
            /\ UNCHANGED log_exists
    /\ UNCHANGED << send_vars, entry, dry_run, doc, html_body, plain_body, body,
                    is_clean, recipients_left, results, run_status, n_detect,
                    n_mask, invocations, ledger, email_log >>
    /\ UNCHANGED << dedup_vars, theme_vars >>

\* Step 1: render both bodies
sp_render ==
    /\ entry = "send_pulse_email" /\ pc = "s_render"
    /\ html_body' = render_html(doc)
    /\ plain_body' = render_plain_text(doc)
    /\ pc' = "s_verify"
    /\ UNCHANGED << send_vars, ledger_vars, entry, dry_run, doc, body, is_clean,
                    recipients_left, results, ret_status, run_status, n_detect,
                    n_mask, invocations >>
    /\ UNCHANGED << dedup_vars, theme_vars >>

\* the gate without its masking pass: a dirty body goes on to delivery
sp_verify_unmasked ==
    /\ entry = "send_pulse_email" /\ pc = "s_verify"
    /\ is_clean' = verify_email(html_body, plain_body)
    /\ n_detect' = n_detect + 1
    /\ pc' = "s_dry_run"
    /\ UNCHANGED << send_vars, ledger_vars, entry, dry_run, doc, html_body,
                    plain_body, body, recipients_left, results, ret_status,
                    run_status, n_mask, invocations >>
    /\ UNCHANGED << dedup_vars, theme_vars >>

\* Step 2: checker.verify_email on the rendered bodies
sp_verify ==
    /\ entry = "send_pulse_email" /\ pc = "s_verify"
    /\ is_clean' = verify_email(html_body, plain_body)
    /\ n_detect' = n_detect + 1
    /\ pc' = IF is_clean' THEN "s_dry_run" ELSE "s_scrub"
    /\ UNCHANGED << send_vars, ledger_vars, entry, dry_run, doc, html_body,
                    plain_body, body, recipients_left, results, ret_status,
                    run_status, n_mask, invocations >>
    /\ UNCHANGED << dedup_vars, theme_vars >>

\* scrubber.scrub_and_mask on both bodies
sp_scrub ==
    /\ entry = "send_pulse_email" /\ pc = "s_scrub"
    /\ html_body' = scrub_and_mask(html_body)
    /\ plain_body' = scrub_and_mask(plain_body)
    /\ n_mask' = n_mask + 1
    /\ pc' = "s_recheck"
    /\ UNCHANGED << send_vars, ledger_vars, entry, dry_run, doc, body, is_clean,
                    recipients_left, results, ret_status, run_status, n_detect,
                    invocations >>
    /\ UNCHANGED << dedup_vars, theme_vars >>

\* the re-check; when still dirty, log_send(status='BLOCKED') and return
sp_recheck(io_ok) ==
    /\ entry = "send_pulse_email" /\ pc = "s_recheck"
    /\ n_detect' = n_detect + 1
    /\ IF verify_email(html_body, plain_body)
       THEN /\ pc' = "s_dry_run"
            /\ UNCHANGED << ledger, ret_status >>
       ELSE IF io_ok
       THEN /\ ledger' = Append(ledger,
                  LedgerRow("BLOCKED", 1, "PII detected and could not be scrubbed", FALSE))
            /\ ret_status' = "BLOCKED"
            /\ pc' = "returned"
       ELSE /\ Raise
            /\ UNCHANGED ledger
    /\ UNCHANGED << send_vars, entry, dry_run, doc, html_body, plain_body, body,
                    is_clean, recipients_left, results, run_status, n_mask,
                    invocations, log_exists, email_log >>
    /\ UNCHANGED << dedup_vars, theme_vars >>

\* the dry-run exit, else Step 3: DeliverySystem(..., max_retries=3, retry_delay=5)
\* built from the environment (cfg: all four SMTP settings are set)
sp_dry_run(cfg) ==
    /\ entry = "send_pulse_email" /\ pc = "s_dry_run"
    /\ IF dry_run
       THEN /\ ret_status' = "DRY_RUN"
            /\ pc' = "returned"
            /\ UNCHANGED << d_pc, smtp_ok >>
       ELSE /\ pc' = "s_send"
            /\ smtp_ok' = cfg
            /\ d_pc' = "call"
            /\ UNCHANGED ret_status
    /\ UNCHANGED << max_retries, attempt, metadata, send_status, send_error,
                    events, ledger_vars, entry, dry_run, doc, html_body, plain_body,
                    body, is_clean, recipients_left, results, run_status, n_detect,
                    n_mask, invocations >>
    /\ UNCHANGED << dedup_vars, theme_vars >>

\* Step 4: logger.log_send(status, attempts=send_metadata.get('attempts', 1), ...)
sp_log(io_ok) ==
    /\ entry = "send_pulse_email" /\ pc = "s_send" /\ d_pc = "returned"
    /\ IF io_ok
       THEN /\ ledger' = Append(ledger,
                  LedgerRow(send_status, Get(metadata, "attempts", 1), send_error, TRUE))
            /\ ret_status' = send_status
            /\ pc' = "returned"
       ELSE /\ Raise
            /\ UNCHANGED ledger
    /\ d_pc' = "idle"
    /\ UNCHANGED << max_retries, smtp_ok, attempt, metadata, send_status, send_error,
                    events, entry, dry_run, doc, html_body, plain_body, body,
                    is_clean, recipients_left, results, run_status, n_detect,
                    n_mask, invocations, log_exists, email_log >>
    /\ UNCHANGED << dedup_vars, theme_vars >>

\* IntegratedPulsePipeline.run: the result of _run_layer4, or the except clause
run_return ==
    /\ entry = "send_pulse_email" /\ pc = "returned"
    /\ run_status' = IF ret_status = "RAISED" THEN "FAILED" ELSE "SUCCESS"
    /\ pc' = "done"
    /\ UNCHANGED << send_vars, ledger_vars, entry, dry_run, doc, html_body,
                    plain_body, body, is_clean, recipients_left, results,
                    ret_status, n_detect, n_mask, invocations >>
    /\ UNCHANGED << dedup_vars, theme_vars >>

(***************************************************************************)
(* Layer4Pipeline.distribute                                               *)
(***************************************************************************)
\* Step 1: render both bodies
distribute_render ==
    /\ entry = "distribute" /\ pc = "d_render"
    /\ html_body' = render_html(doc)
    /\ plain_body' = render_plain_text(doc)
    /\ pc' = "d_verify"
    /\ UNCHANGED << send_vars, ledger_vars, entry, dry_run, doc, body, is_clean,
                    recipients_left, results, ret_status, run_status, n_detect,
                    n_mask, invocations >>
    /\ UNCHANGED << dedup_vars, theme_vars >>

\* Step 2: the final check; a dirty body returns the BLOCKED report
distribute_verify ==
    /\ entry = "distribute" /\ pc = "d_verify"
    /\ is_clean' = verify_email(html_body, plain_body)
    /\ n_detect' = n_detect + 1
    /\ IF is_clean'
       THEN /\ results' = << >>
            /\ pc' = "d_loop"
            /\ UNCHANGED ret_status
       ELSE /\ ret_status' = "BLOCKED"
            /\ pc' = "returned"
            /\ UNCHANGED results
    /\ UNCHANGED << send_vars, ledger_vars, entry, dry_run, doc, html_body,
                    plain_body, body, recipients_left, run_status, n_mask,
                    invocations >>
    /\ UNCHANGED << dedup_vars, theme_vars >>

\* Step 3: the head of the loop over recipients, and Step 4 after the last one
distribute_loop ==
    /\ entry = "distribute" /\ pc = "d_loop"
    /\ IF recipients_left > 0
       THEN /\ d_pc' = "call"
            /\ pc' = "d_send"
            /\ UNCHANGED ret_status
       ELSE /\ ret_status' = "COMPLETE"
            /\ pc' = "returned"
            /\ UNCHANGED d_pc
    /\ UNCHANGED << max_retries, smtp_ok, attempt, metadata, send_status, send_error,
                    events, ledger_vars, entry, dry_run, doc, html_body, plain_body,
                    body, is_clean, recipients_left, results, run_status, n_detect,
                    n_mask, invocations >>
    /\ UNCHANGED << dedup_vars, theme_vars >>

\* results.append(result) of one recipient
distribute_result ==
    /\ entry = "distribute" /\ pc = "d_send" /\ d_pc = "returned"
    /\ results' = Append(results, send_status)
    /\ recipients_left' = recipients_left - 1
    /\ d_pc' = "idle"
    /\ pc' = "d_loop"
    /\ UNCHANGED << max_retries, smtp_ok, attempt, metadata, send_status, send_error,
                    events, ledger_vars, entry, dry_run, doc, html_body, plain_body,
                    body, is_clean, ret_status, run_status, n_detect, n_mask,
                    invocations >>
    /\ UNCHANGED << dedup_vars, theme_vars >>

(***************************************************************************)
(* main.fetch_and_process_reviews: the weekly email of the scheduled run   *)
(***************************************************************************)
\* body = draft_weekly_email(note_final, ...)
main_draft ==
    /\ entry = "main" /\ pc = "m_draft"
    /\ body' = draft_weekly_email(doc)
    /\ pc' = "m_scrub"
    /\ UNCHANGED << send_vars, ledger_vars, entry, dry_run, doc, html_body,
                    plain_body, is_clean, recipients_left, results, ret_status,
                    run_status, n_detect, n_mask, invocations >>
    /\ UNCHANGED << dedup_vars, theme_vars >>

\* body = scrub_pii(body)
main_scrub ==
    /\ entry = "main" /\ pc = "m_scrub"
    /\ body' = scrub_pii(body)
    /\ n_mask' = n_mask + 1
    /\ pc' = "m_send"
    /\ UNCHANGED << send_vars, ledger_vars, entry, dry_run, doc, html_body,
                    plain_body, is_clean, recipients_left, results, ret_status,
                    run_status, n_detect, invocations >>
    /\ UNCHANGED << dedup_vars, theme_vars >>

\* emailer.send_email: one attempt, every exception becomes ("ERROR", str(e))
emailer_send_email(outcome, e) ==
    /\ entry = "main" /\ pc = "m_send"
    /\ IF ~smtp_ok
       THEN /\ send_status' = "ERROR"
            /\ send_error' = "Missing SMTP configuration or addresses"
            /\ UNCHANGED events
       ELSE /\ events' = Append(events,
                  [kind |-> "attempt", outcome |-> outcome,
                   msg |-> IF outcome = "ok" THEN "" ELSE e,
                   html |-> << >>, plain |-> body, seconds |-> 0])
            /\ send_status' = IF outcome = "ok" THEN "SENT" ELSE "ERROR"
            /\ send_error' = IF outcome = "ok" THEN "" ELSE e
    /\ pc' = "m_log"
    /\ UNCHANGED << max_retries, smtp_ok, d_pc, attempt, metadata, ledger_vars,
                    entry, dry_run, doc, html_body, plain_body, body, is_clean,
                    recipients_left, results, ret_status, run_status, n_detect,
                    n_mask, invocations >>
    /\ UNCHANGED << dedup_vars, theme_vars >>

\* emailer.log_email_send: a row of email_log.csv
log_email_send(io_ok) ==
    /\ entry = "main" /\ pc = "m_log"
    /\ IF io_ok
       THEN /\ email_log' = Append(email_log,
                  [status |-> send_status, error_message |-> send_error])
            /\ ret_status' = send_status
            /\ pc' = "returned"
       ELSE /\ Raise
            /\ UNCHANGED email_log
    /\ UNCHANGED << send_vars, entry, dry_run, doc, html_body, plain_body, body,
                    is_clean, recipients_left, results, run_status, n_detect,
                    n_mask, invocations, log_exists, ledger >>
    /\ UNCHANGED << dedup_vars, theme_vars >>

(***************************************************************************)
(* One invocation of a delivery entry point on a document.                 *)
(***************************************************************************)
Entries == {"send_pulse_email", "distribute", "main"}

FirstPc(en) ==
    CASE en = "send_pulse_email" -> "s_logger"
      [] en = "distribute" -> "d_render"
      [] en = "main" -> "m_draft"

InitPulse ==
    /\ entry \in Entries
    /\ pc = FirstPc(entry)
    /\ doc \in Docs
    /\ dry_run \in (IF entry = "send_pulse_email" THEN BOOLEAN ELSE {FALSE})
    /\ smtp_ok \in (IF entry = "send_pulse_email" THEN {FALSE} ELSE BOOLEAN)
    /\ recipients_left \in (IF entry = "distribute" THEN 0..MaxRecipients ELSE {0})
    /\ max_retries = DefaultMaxRetries
    /\ d_pc = "idle"
    /\ attempt = 0
    /\ metadata = << >>
    /\ send_status = ""
    /\ send_error = ""
    /\ events = << >>
    /\ html_body = << >>
    /\ plain_body = << >>
    /\ body = << >>
    /\ is_clean = TRUE
    /\ results = << >>
    /\ ret_status = ""
    /\ run_status = ""
    /\ n_detect = 0
    /\ n_mask = 0
    /\ invocations = 1
    /\ email_log = << >>
    /\ \/ log_exists = FALSE /\ ledger = << >>
       \/ log_exists = TRUE /\ ledger = << OldRow >>
    /\ IdleDedup
    /\ IdleThemes

NextPulse ==
    \/ \E io_ok \in BOOLEAN : sp_logger(io_ok)
    \/ sp_render
    \/ sp_verify
    \/ sp_scrub
    \/ \E io_ok \in BOOLEAN : sp_recheck(io_ok)
    \/ \E cfg \in BOOLEAN : sp_dry_run(cfg)
    \/ \E io_ok \in BOOLEAN : sp_log(io_ok)
    \/ run_return
    \/ distribute_render
    \/ distribute_verify
    \/ distribute_loop
    \/ distribute_result
    \/ main_draft
    \/ main_scrub
    \/ \E o \in Outcomes : emailer_send_email(o, "e1")
    \/ \E io_ok \in BOOLEAN : log_email_send(io_ok)
    \/ send_email_enter /\ UNCHANGED << caller_vars, ledger_vars, dedup_vars, theme_vars >>
    \/ \E o \in Outcomes :
          send_email_attempt(o, "e1")
             /\ UNCHANGED << caller_vars, ledger_vars, dedup_vars, theme_vars >>

SpecPulse == InitPulse /\ [][NextPulse]_vars

(***************************************************************************)
(* A DeliverySystem called on its own, for every max_retries.              *)
(***************************************************************************)
IdleCaller ==
    /\ entry = "send_email"
    /\ pc = "in_send_email"
    /\ dry_run = FALSE
    /\ doc = << >>
    /\ html_body = << >>
    /\ plain_body = << >>
    /\ body = << >>
    /\ is_clean = TRUE
    /\ recipients_left = 0
    /\ results = << >>
    /\ ret_status = ""
    /\ run_status = ""
    /\ n_detect = 0
    /\ n_mask = 0
    /\ invocations = 1

EmptyLedger ==
    /\ log_exists = FALSE
    /\ ledger = << >>
    /\ email_log = << >>

InitSend ==
    /\ max_retries \in 0..MaxRetriesBound
    /\ smtp_ok \in BOOLEAN
    /\ d_pc = "call"
    /\ attempt = 0
    /\ metadata = << >>
    /\ send_status = ""
    /\ send_error = ""
    /\ events = << >>
    /\ IdleCaller
    /\ EmptyLedger
    /\ IdleDedup
    /\ IdleThemes

NextSend ==
    \/ send_email_enter /\ UNCHANGED << caller_vars, ledger_vars, dedup_vars, theme_vars >>
    \/ \E o \in Outcomes, e \in ErrTexts :
          send_email_attempt(o, e) /\ UNCHANGED << caller_vars, ledger_vars, dedup_vars, theme_vars >>

SpecSend == InitSend /\ [][NextSend]_vars

\* the interpreter runs the call to its end
SpecSendFair == SpecSend /\ WF_vars(NextSend)

(***************************************************************************)
(* The retry loop of DeliverySystem.send_email (C4, C5, C6)                *)
(***************************************************************************)
AttemptIndexes == {i \in DOMAIN events : events[i].kind = "attempt"}

NumAttempts == Cardinality(AttemptIndexes)

NumSleeps == Cardinality(DOMAIN events \ AttemptIndexes)

Returned == d_pc = "returned"

LastEvent == events[Len(events)]

\* every delay lasts retry_delay and stands between two attempts
SleepsOnlyBetweenAttempts ==
    \A i \in DOMAIN events \ AttemptIndexes :
        /\ events[i].seconds = RetryDelay
        /\ i > 1 /\ events[i - 1].kind = "attempt"
        /\ events[i - 1].outcome \in {"smtp", "other"}
        /\ i < Len(events) => events[i + 1].kind = "attempt"
        /\ i = Len(events) => d_pc = "loop"

AllAttemptsFailedTransiently ==
    /\ NumAttempts >= 1
    /\ \A i \in AttemptIndexes : events[i].outcome \in {"smtp", "other"}

C4_Bounded ==
    /\ NumAttempts <= max_retries
    /\ SleepsOnlyBetweenAttempts
    /\ d_pc = "loop" => attempt <= max_retries /\ NumAttempts = attempt - 1
    /\ (Returned /\ AllAttemptsFailedTransiently) =>
          /\ send_status = "ERROR"
          /\ send_error = LastEvent.msg
          /\ LastEvent.kind = "attempt"
          /\ metadata.attempts = max_retries
          /\ NumAttempts = max_retries
          /\ NumSleeps = max_retries - 1

\* C4: with non-authentication failures only, send_email makes at most
\* max_retries attempts, sleeps retry_delay only between two attempts and never
\* after the last one, always returns, and when every attempt failed it returns
\* ERROR with the last attempt's message and attempts = max_retries.
C4_RetryBounded == [](C4_Bounded) /\ <>(Returned)

C4_Witness ==
    /\ Returned /\ AllAttemptsFailedTransiently
    /\ max_retries = 3 /\ NumAttempts = 3 /\ NumSleeps = 2
    /\ send_status = "ERROR" /\ send_error = "SMTP error: e2"
    /\ events[1].msg = "Unexpected error: e1"

AuthIndexes == {i \in AttemptIndexes : events[i].outcome = "auth"}

\* C5 as claimed: an authentication error ends the call with ERROR and
\* attempts = 1, whatever happened on the earlier attempts.
C5_AuthAttemptsIsOne ==
    AuthIndexes # {} =>
        /\ Returned /\ send_status = "ERROR"
        /\ metadata.attempts = 1

\* C5 as amended: an authentication error on attempt k ends the call at once
\* with ERROR, the authentication message and attempts = k (1 when it is the
\* first attempt): no attempt and no delay follows it.
C5_AuthFatal ==
    \A i \in AuthIndexes :
        /\ i = Len(events)
        /\ Returned /\ send_status = "ERROR"
        /\ send_error = events[i].msg
        /\ metadata.attempts = NumAttempts
        /\ NumAttempts = 1 => metadata.attempts = 1
        /\ NumSleeps = NumAttempts - 1

C5_Witness ==
    /\ AuthIndexes # {} /\ Returned
    /\ max_retries = 3 /\ NumAttempts = 2 /\ metadata.attempts = 2
    /\ send_error = "SMTP authentication failed: e1"

OkIndexes == {i \in AttemptIndexes : events[i].outcome = "ok"}

\* C6: a success on attempt k, after k-1 transient failures, returns SENT with
\* attempts = k <= max_retries, an empty error message and a send timestamp,
\* and nothing follows it; in every result sent_at is set exactly when the
\* status is SENT.
C6_SentOnAttemptK ==
    /\ \A i \in OkIndexes :
          /\ i = Len(events)
          /\ Returned /\ send_status = "SENT" /\ send_error = ""
          /\ metadata.attempts = NumAttempts /\ NumAttempts <= max_retries
          /\ NumSleeps = NumAttempts - 1
          /\ metadata.sent_at # "None"
    /\ Returned =>
          /\ (Get(metadata, "sent_at", "None") # "None") <=> (send_status = "SENT")
          /\ (send_status = "SENT") <=> (OkIndexes # {})

C6_Witness ==
    /\ Returned /\ send_status = "SENT" /\ metadata.attempts = 3
    /\ NumAttempts = 3 /\ events[1].outcome = "smtp" /\ events[3].outcome = "other"
    /\ metadata.sent_at = "ts"

(***************************************************************************)
(* The PII gate of send_pulse_email (C1)                                   *)
(***************************************************************************)
InSendPulse == entry = "send_pulse_email"

\* send_pulse_email is behind the gate: at the dry-run test, in Step 3, or after
PastGate == pc \in {"s_dry_run", "s_send"} \/ ret_status = "DRY_RUN" \/ send_status # ""

\* C1: in send_pulse_email detection runs once on the rendered bodies; a dirty
\* result is followed by exactly one masking pass and exactly one
\* re-detection, a clean one by neither; only bodies the last detection found
\* clean leave the gate, a body still dirty ends the invocation BLOCKED with
\* no transport attempt; no invocation masks more than once or detects more
\* than twice.
C1_BoundedGate ==
    InSendPulse =>
        /\ n_detect <= 2 /\ n_mask <= 1
        /\ n_mask = 1 => n_detect >= 1 /\ ~is_clean
        /\ n_detect = 2 => n_mask = 1
        /\ PastGate => IF is_clean THEN n_detect = 1 /\ n_mask = 0
                                   ELSE n_detect = 2 /\ n_mask = 1
        /\ pc = "s_dry_run" => verify_email(html_body, plain_body)
        /\ NumAttempts > 0 =>
              /\ PastGate
              /\ \A i \in AttemptIndexes :
                    events[i].html = html_body /\ events[i].plain = plain_body
        /\ ret_status = "BLOCKED" =>
              /\ NumAttempts = 0 /\ n_detect = 2 /\ n_mask = 1
              /\ pc \in {"returned", "done"}

\* a dirty document was masked once, detected twice and then sent
C1_Witness ==
    /\ InSendPulse /\ ret_status = "SENT"
    /\ ~is_clean /\ n_mask = 1 /\ n_detect = 2
    /\ NumAttempts >= 1

(***************************************************************************)
(* What reaches the transport (C2)                                         *)
(***************************************************************************)
\* C2: on every path that hands a message to the transport (send_pulse_email,
\* Layer4Pipeline.distribute, main.fetch_and_process_reviews through
\* emailer.send_email) the body sent is one the Stage-2 detectors classify
\* clean.
C2_SentBodiesClean ==
    \A i \in AttemptIndexes : ~check(events[i].html) /\ ~check(events[i].plain)

(***************************************************************************)
(* The send ledger (C7, C8)                                                *)
(***************************************************************************)
RECURSIVE Statuses(_)
Statuses(rows) ==
    IF rows = << >> THEN << >> ELSE << Head(rows).status >> \o Statuses(Tail(rows))

IsNewRow(r) == r.timestamp = invocations

\* the terminal outcomes the invocation has produced for its caller
ProducedOutcomes ==
    IF entry = "distribute"
    THEN results \o (IF ret_status = "BLOCKED" THEN << "BLOCKED" >> ELSE << >>)
    ELSE IF ret_status \in {"SENT", "ERROR", "BLOCKED"} THEN << ret_status >>
    ELSE << >>

\* C7: every terminal outcome (SENT, ERROR, BLOCKED) of send_pulse_email and of
\* Layer4Pipeline.distribute has appended exactly one ledger record with the
\* status given to the caller, and the records of earlier runs are untouched.
C7_OneRecordPerOutcome ==
    (entry \in {"send_pulse_email", "distribute"} /\ pc \in {"returned", "done"}) =>
        /\ Statuses(SelectSeq(ledger, IsNewRow)) = ProducedOutcomes
        /\ \A i \in DOMAIN ledger : ~IsNewRow(ledger[i]) => i = 1 /\ ledger[i] = OldRow

\* C8: a failure to create or write the ledger changes neither the status
\* send_pulse_email returns (a sent email is reported SENT) nor turns
\* IntegratedPulsePipeline.run into FAILED.
C8_LedgerFailureHarmless ==
    InSendPulse =>
        /\ (pc \in {"returned", "done"} /\ send_status = "SENT") => ret_status = "SENT"
        /\ run_status # "FAILED"

(***************************************************************************)
(* A Deduplicator over calls and restarts.                                 *)
(***************************************************************************)
InitDedup ==
    /\ IdleDedup
    /\ max_retries = DefaultMaxRetries
    /\ smtp_ok = FALSE
    /\ d_pc = "idle"
    /\ attempt = 0
    /\ metadata = << >>
    /\ send_status = ""
    /\ send_error = ""
    /\ events = << >>
    /\ IdleCaller
    /\ EmptyLedger
    /\ IdleThemes

NextDedup ==
    \/ \E reviews \in Batches, outcome \in SaveOutcomes :
          filter_duplicates(reviews, outcome) /\ UNCHANGED << ingest_io, stage_io >>
    \/ \E read_ok \in BOOLEAN : Deduplicator_init(read_ok)

SpecDedup == InitDedup /\ [][NextDedup]_vars

(***************************************************************************)
(* The identity store under every operation of the Deduplicator.           *)
(***************************************************************************)
NextStore ==
    \/ \E reviews \in Batches, outcome \in SaveOutcomes :
          filter_duplicates(reviews, outcome) /\ UNCHANGED << ingest_io, stage_io >>
    \/ \E reviews \in Batches, outcome \in SaveOutcomes :
          mark_as_seen(reviews, outcome)
    \/ \E read_ok \in BOOLEAN : Deduplicator_init(read_ok)

SpecStore == InitDedup /\ [][NextStore]_vars

(***************************************************************************)
(* Layer1Pipeline over batches.                                            *)
(***************************************************************************)
NextIngest ==
    \/ \E fetched \in RawBatches, fetch_ok \in BOOLEAN, outcome \in SaveOutcomes :
          process_batch(fetched, fetch_ok, outcome)
    \/ \E read_ok \in BOOLEAN : Deduplicator_init(read_ok)

SpecIngest == InitDedup /\ [][NextIngest]_vars

(***************************************************************************)
(* Layer2Pipeline.process from labeling to the consolidated themes.        *)
(***************************************************************************)
\* the max_themes arguments of Layer2Pipeline: the default and a smaller one
MaxThemesGiven == {MAX_THEMES - 2, MAX_THEMES}

InitThemes ==
    /\ themes \in {<< >>, ExampleThemes}
    /\ final_themes = << >>
    /\ l2_pc = "labeling"
    /\ document = << >>
    /\ max_themes \in MaxThemesGiven
    /\ labels = << >>
    /\ enriched_reviews = << >>
    /\ quote_pool = << >>
    /\ returned_quotes = << >>
    /\ enriched_themes = << >>
    /\ action_ideas = << >>
    /\ max_retries = DefaultMaxRetries
    /\ smtp_ok = FALSE
    /\ d_pc = "idle"
    /\ attempt = 0
    /\ metadata = << >>
    /\ send_status = ""
    /\ send_error = ""
    /\ events = << >>
    /\ IdleCaller
    /\ EmptyLedger
    /\ IdleDedup

NextThemes ==
    \/ \E name \in ThemeNames, size \in 1..MaxSize : process_label_cluster(name, size)
    \/ process_enforce_limit
    \/ layer3_process

SpecThemes == InitThemes /\ [][NextThemes]_vars

(***************************************************************************)
(* Each identity key is accepted once (C3)                                 *)
(***************************************************************************)
\* the last call accepted no key twice, and of every key its first occurrence
FirstOccurrencesOnly ==
    /\ \A i, j \in DOMAIN last_unique :
          i # j => compute_hash(last_unique[i]) # compute_hash(last_unique[j])
    /\ \A i \in DOMAIN last_unique :
          \E j \in DOMAIN last_batch :
              /\ last_batch[j] = last_unique[i]
              /\ \A m \in 1..(j - 1) :
                    compute_hash(last_batch[m]) # compute_hash(last_unique[i])

\* a filter_duplicates call on a batch whose keys were all accepted before
ResubmittedBatch ==
    /\ Len(d_trace') = Len(d_trace) + 1
    /\ d_trace'[Len(d_trace')] = "filter_duplicates"
    /\ \A i \in DOMAIN last_batch' : accepted[compute_hash(last_batch'[i])] >= 1

NamedOther(ts) == {i \in DOMAIN ts : ts[i].theme_name = "Other"}

\* the input themes ranked below the top MAX_THEMES - 1 by size
RankedBelow == SubSeq(sorted(themes, Len(themes)), MAX_THEMES, Len(themes))

\* C9: enforce_limit returns min(k, 5) themes for k input themes; for k > 5
\* exactly one returned theme is named "Other", its size is the sum of the
\* sizes of the input themes ranked below the top 4, and it records the
\* cluster ids of exactly those themes.
C9_ConsolidationBound ==
    l2_pc = "done" =>
        /\ Len(final_themes) = IF Len(themes) <= MAX_THEMES THEN Len(themes) ELSE MAX_THEMES
        /\ Len(themes) > MAX_THEMES =>
              /\ Cardinality(NamedOther(final_themes)) = 1
              /\ \A i \in NamedOther(final_themes) :
                    /\ final_themes[i].size = SumSizes(RankedBelow)
                    /\ {final_themes[i].merged_from[j] :
                           j \in DOMAIN final_themes[i].merged_from}
                         = {RankedBelow[j].cluster_id : j \in DOMAIN RankedBelow}

\* C10: the list enforce_limit returns is ordered by size descending, the
\* "Other" bucket standing where its summed size puts it: the sizes
\* 45, 38, 32, 28, 22, 15, 12, 8 give 57 ("Other"), 45, 38, 32, 28.
C10_SortedBySize ==
    l2_pc = "done" =>
        /\ \A i \in 1..(Len(final_themes) - 1) :
              final_themes[i].size >= final_themes[i + 1].size
        /\ themes = ExampleThemes =>
              /\ [i \in DOMAIN final_themes |-> final_themes[i].size]
                    = << 57, 45, 38, 32, 28 >>
              /\ final_themes[1].theme_name = "Other"

(***************************************************************************)
(* The themes of the pulse document (C11)                                  *)
(***************************************************************************)
\* the themes of ts that are not among the first n
Rest(ts, n) == SubSeq(ts, n + 1, Len(ts))

\* C11: the themes of the PulseDocument are the three largest themes of the
\* consolidated list in size-descending order, a merged "Other" bucket among
\* the three largest included.
C11_ThreeLargest ==
    l2_pc = "assembled" =>
        /\ Len(document.themes) = IF Len(final_themes) < 3 THEN Len(final_themes) ELSE 3
        /\ \A i \in 1..(Len(document.themes) - 1) :
              document.themes[i].size >= document.themes[i + 1].size
        /\ \A i \in DOMAIN document.themes :
              \A j \in DOMAIN Rest(final_themes, Len(document.themes)) :
                  document.themes[i].size
                     >= Rest(final_themes, Len(document.themes))[j].size

(***************************************************************************)
(* enforce_limit as a function of its list.                                *)
(***************************************************************************)
InitEnforce ==
    /\ themes = << >>
    /\ final_themes = << >>
    /\ l2_pc = "input"
    /\ document = << >>
    /\ max_themes = MAX_THEMES
    /\ labels = << >>
    /\ enriched_reviews = << >>
    /\ quote_pool = << >>
    /\ returned_quotes = << >>
    /\ enriched_themes = << >>
    /\ action_ideas = << >>
    /\ max_retries = DefaultMaxRetries
    /\ smtp_ok = FALSE
    /\ d_pc = "idle"
    /\ attempt = 0
    /\ metadata = << >>
    /\ send_status = ""
    /\ send_error = ""
    /\ events = << >>
    /\ IdleCaller
    /\ EmptyLedger
    /\ IdleDedup

NextEnforce ==
    \/ \E size \in 1..MaxSize : input_theme(size)
    \/ \E i, j \in 1..MaxThemeCount : input_reorder(i, j)
    \/ call_enforce_limit

SpecEnforce == InitEnforce /\ [][NextEnforce]_vars

(***************************************************************************)
(* Themes of equal size (C12)                                              *)
(***************************************************************************)
\* the returned themes that are input themes
KeptIndexes == {i \in DOMAIN final_themes : final_themes[i].cluster_id # -2}

\* the input themes merged into the bucket
MergedIndexes ==
    {i \in DOMAIN themes :
        \A k \in KeptIndexes : final_themes[k].cluster_id # themes[i].cluster_id}

\* Before(t, u): t stands before u in the order the property is about
TiesResolved(Before(_, _)) ==
    /\ \A i, j \in KeptIndexes :
          (i < j /\ final_themes[i].size = final_themes[j].size)
              => Before(final_themes[i], final_themes[j])
    /\ \A k \in KeptIndexes : \A m \in MergedIndexes :
          final_themes[k].size = themes[m].size => Before(final_themes[k], themes[m])

LowerClusterId(t, u) == t.cluster_id < u.cluster_id

\* C12: for any order of the input list themes of equal size come
\* out in ascending cluster id order, and of a tie at the cut between rank 4
\* and rank 5 the lower cluster id is kept.
C12_TiesByClusterId == l2_pc = "done" => TiesResolved(LowerClusterId)

(***************************************************************************)
(* The max_themes argument of Layer2Pipeline (C13)                         *)
(***************************************************************************)
\* C13: for every max_themes value m given to Layer2Pipeline the theme list
\* process returns has at most m themes; with more than m themes coming in
\* the top m - 1 are kept and the rest is merged into one bucket.
C13_MaxThemesHonoured ==
    l2_pc \in {"done", "assembled"} =>
        /\ Len(final_themes) <= max_themes
        /\ Len(themes) > max_themes =>
              /\ Len(final_themes) = max_themes
              /\ final_themes[max_themes].cluster_id = -2

(***************************************************************************)
(* Layer2Pipeline.process on the labels of a clustering.                   *)
(***************************************************************************)
InitEnrich ==
    /\ themes = << >>
    /\ final_themes = << >>
    /\ l2_pc = "clustering"
    /\ document = << >>
    /\ max_themes = MAX_THEMES
    /\ labels = << >>
    /\ enriched_reviews = << >>
    /\ quote_pool = << >>
    /\ returned_quotes = << >>
    /\ enriched_themes = << >>
    /\ action_ideas = << >>
    /\ max_retries = DefaultMaxRetries
    /\ smtp_ok = FALSE
    /\ d_pc = "idle"
    /\ attempt = 0
    /\ metadata = << >>
    /\ send_status = ""
    /\ send_error = ""
    /\ events = << >>
    /\ IdleCaller
    /\ EmptyLedger
    /\ IdleDedup

NextEnrich ==
    \/ \E label \in -1..(MaxThemeCount - 1) : clusterer_fit(label)
    \/ layer2_process

SpecEnrich == InitEnrich /\ [][NextEnrich]_vars

(***************************************************************************)
(* The theme of every review (C14)                                         *)
(***************************************************************************)
\* the clusters whose theme is in the returned list
KeptClusters ==
    {final_themes[k].cluster_id : k \in DOMAIN final_themes} \ {-2}

\* C14: process returns one enriched review per input review, in input
\* order; a noise review (cluster id -1) is named "Noise" and counts toward
\* no theme's size; a review of a kept cluster gets the name of that
\* cluster's theme; a review of a merged cluster gets "Other".
C14_EveryReviewEnriched ==
    l2_pc = "enriched" =>
        /\ Len(enriched_reviews) = Len(labels)
        /\ \A i \in DOMAIN labels :
              /\ enriched_reviews[i].review = i
              /\ enriched_reviews[i].cluster_id = labels[i]
              /\ labels[i] = -1 => enriched_reviews[i].theme = "Noise"
              /\ labels[i] \in KeptClusters =>
                    enriched_reviews[i].theme = label_cluster(labels[i])
              /\ (labels[i] # -1 /\ labels[i] \notin KeptClusters) =>
                    enriched_reviews[i].theme = "Other"
        /\ SumSizes(final_themes) = Cardinality({i \in DOMAIN labels : labels[i] # -1})

\* a noise review, a review of a kept cluster and a review of a merged one
C14_Witness ==
    /\ l2_pc = "enriched"
    /\ \E i, j, k \in DOMAIN labels :
          /\ labels[i] = -1 /\ enriched_reviews[i].theme = "Noise"
          /\ labels[j] \in KeptClusters
          /\ labels[k] # -1 /\ labels[k] \notin KeptClusters
          /\ enriched_reviews[k].theme = "Other"

(***************************************************************************)
(* The persisted identity store (C15, C16)                                 *)
(***************************************************************************)
\* the seen_ids list a reader of the state file gets
PersistedIds == IF state_file.status = "ok" THEN state_file.ids ELSE {}

\* C15: over filter_duplicates calls, mark_as_seen calls and restarts the
\* persisted set never loses a key: every step leaves the keys of the state
\* file in it.
C15_StoreNeverShrinks == [][PersistedIds \subseteq PersistedIds']_vars

FilterReturned == d_trace # << >> /\ d_trace[Len(d_trace)] = "filter_duplicates"

\* the keys the last filter_duplicates call accepted
AcceptedKeys == {compute_hash(last_unique[i]) : i \in DOMAIN last_unique}

ReturnedRejections ==
    IF "rejected" \in DOMAIN batch_result THEN batch_result.rejected ELSE << >>

MeetsSchema(r) ==
    /\ AllFields \subseteq r.fields
    /\ r.py.reviewId = "str" /\ r.reviewId # ""
    /\ r.py.content = "str"
    /\ r.score >= 1 /\ r.score <= 5
    /\ r.py.at = "datetime"

\* C17: the reviews process_batch returns all meet the schema (non-empty
\* string key, string text, rating in [1,5], well-formed timestamp), and
\* every record of the batch that fails a check is returned to the caller as
\* a rejection with a non-empty reason.
C17_EveryRecordAccounted ==
    batch_result # << >> =>
        /\ \A i \in DOMAIN batch_result.reviews : MeetsSchema(batch_result.reviews[i])
        /\ \A i \in DOMAIN raw_reviews :
              ~MeetsSchema(raw_reviews[i]) =>
                  \E j \in DOMAIN ReturnedRejections :
                      /\ ReturnedRejections[j].reviewId = raw_reviews[i].reviewId
                      /\ ReturnedRejections[j].reason # ""

(***************************************************************************)
(* _select_quotes as a function of the pool and the top themes.            *)
(***************************************************************************)
InitQuotes ==
    /\ themes = << >>
    /\ final_themes = << >>
    /\ l2_pc = "quotes"
    /\ document = << >>
    /\ max_themes = MAX_THEMES
    /\ labels = << >>
    /\ enriched_reviews = << >>
    /\ quote_pool = << >>
    /\ returned_quotes = << >>
    /\ enriched_themes = << >>
    /\ action_ideas = << >>
    /\ max_retries = DefaultMaxRetries
    /\ smtp_ok = FALSE
    /\ d_pc = "idle"
    /\ attempt = 0
    /\ metadata = << >>
    /\ send_status = ""
    /\ send_error = ""
    /\ events = << >>
    /\ IdleCaller
    /\ EmptyLedger
    /\ IdleDedup

NextQuotes ==
    \/ \E name \in ThemeNames : quotes_top_theme(name)
    \/ \E name \in ThemeNames, source_id \in QuoteSources : quotes_extend(name, source_id)
    \/ call_select_quotes

SpecQuotes == InitQuotes /\ [][NextQuotes]_vars

(***************************************************************************)
(* The selected quotes (C18)                                               *)
(***************************************************************************)
\* how often quote q stands in the list qs
TimesIn(qs, q) == Cardinality({i \in DOMAIN qs : qs[i] = q})

\* C18: _select_quotes returns exactly min(3, size of the pool) quotes and
\* no pool item twice: a quote is in the result at most as often as it is in
\* the pool.
C18_ThreeDistinctQuotes ==
    l2_pc = "selected" =>
        /\ Len(returned_quotes) = (IF Len(quote_pool) < 3 THEN Len(quote_pool) ELSE 3)
        /\ \A i \in DOMAIN returned_quotes :
              TimesIn(returned_quotes, returned_quotes[i])
                  <= TimesIn(quote_pool, returned_quotes[i])

(***************************************************************************)
(* assemble as a function of the themes, quotes and action ideas.          *)
(***************************************************************************)
InitAssemble ==
    /\ themes = << >>
    /\ final_themes = << >>
    /\ l2_pc = "assembling"
    /\ document = << >>
    /\ max_themes = MAX_THEMES
    /\ labels = << >>
    /\ enriched_reviews = << >>
    /\ quote_pool = << >>
    /\ returned_quotes = << >>
    /\ enriched_themes = << >>
    /\ action_ideas = << >>
    /\ max_retries = DefaultMaxRetries
    /\ smtp_ok = FALSE
    /\ d_pc = "idle"
    /\ attempt = 0
    /\ metadata = << >>
    /\ send_status = ""
    /\ send_error = ""
    /\ events = << >>
    /\ IdleCaller
    /\ EmptyLedger
    /\ IdleDedup

NextAssemble ==
    \/ \E summary \in Summaries : summarize_theme(summary)
    \/ extract_quote
    \/ \E words \in ActionWords : generate_action(words)
    \/ call_assemble

SpecAssemble == InitAssemble /\ [][NextAssemble]_vars

(***************************************************************************)
(* The word limit (C19, C20)                                               *)
(***************************************************************************)
\* the document as it goes into _enforce_word_limit, and its word count
Uncompressed == build_document(enriched_themes, quote_pool, action_ideas)

CountBefore == count_words(Uncompressed)

Assembled == l2_pc = "assembled"

\* C19: a count above 250 leads to one compression pass (every summary is
\* the first sentence of the summary that came in) and one recount, which is
\* not greater than the count before; a count of at most 250 leaves every
\* summary as it came in; in both cases metadata.word_count is the count of
\* the returned content.
C19_OnePassAndRecount ==
    Assembled =>
        /\ document.metadata.word_count = count_words(document)
        /\ CountBefore > MAX_WORDS =>
              /\ \A i \in DOMAIN document.themes :
                    document.themes[i].summary = FirstSentence(Uncompressed.themes[i].summary)
              /\ document.metadata.word_count <= CountBefore
        /\ CountBefore <= MAX_WORDS =>
              \A i \in DOMAIN document.themes :
                  document.themes[i].summary = Uncompressed.themes[i].summary

\* a document over the limit whose compression shortened a summary
C19_Witness ==
    /\ Assembled
    /\ CountBefore > MAX_WORDS
    /\ document.metadata.word_count < CountBefore
    /\ \E i \in DOMAIN document.themes :
          document.themes[i].summary # Uncompressed.themes[i].summary

InitMask ==
    /\ entry = "pii"
    /\ pc = "m_verify"
    /\ doc \in Bodies
    /\ body = doc
    /\ dry_run = FALSE
    /\ html_body = << >>
    /\ plain_body = << >>
    /\ is_clean = TRUE
    /\ recipients_left = 0
    /\ results = << >>
    /\ ret_status = ""
    /\ run_status = ""
    /\ n_detect = 0
    /\ n_mask = 0
    /\ invocations = 1
    /\ max_retries = DefaultMaxRetries
    /\ smtp_ok = FALSE
    /\ d_pc = "idle"
    /\ attempt = 0
    /\ metadata = << >>
    /\ send_status = ""
    /\ send_error = ""
    /\ events = << >>
    /\ EmptyLedger
    /\ IdleDedup
    /\ IdleThemes

NextMask ==
    \/ pii_verify
    \/ pii_scrub_and_verify

SpecMask == InitMask /\ [][NextMask]_vars

(***************************************************************************)
(* Detection of addresses and phone numbers, soundness of masking (C21)    *)
(***************************************************************************)
\* text t holds piece as a run of consecutive characters
Contains(t, piece) ==
    \E i \in 1..(Len(t) - Len(piece) + 1) : SubSeq(t, i, i + Len(piece) - 1) = piece

PIIKinds == {"EMAIL", "PHONE", "LONG_DIGITS", "NAME"}

\* C21: a body that holds user@example.com or 555-123-4567 is classified
\* dirty; after one scrub_and_mask pass the masked body is classified clean
\* and none of the four detectors (email, phone, long digit run, honorific
\* and name) finds anything in it, the placeholder tokens included.
C21_DetectedAndMaskedClean ==
    entry = "pii" =>
        /\ (pc = "m_scrub" /\ (Contains(body, FragEmail) \/ Contains(body, FragPhone)))
              => ~is_clean
        /\ pc = "m_done" =>
              /\ is_clean
              /\ body = scrub_and_mask(doc)
              /\ \A kind \in PIIKinds : ~Found(kind, body)

\* a body with an address and a phone number, found dirty, masked and then clean
C21_Witness ==
    /\ entry = "pii" /\ pc = "m_done"
    /\ Contains(doc, FragEmail) /\ Contains(doc, FragPlus91)
    /\ check(doc)
    /\ Contains(body, MaskEmail) /\ Contains(body, MaskPlus91)
    /\ is_clean

(***************************************************************************)
(* IntegratedPulsePipeline.run                                             *)
(***************************************************************************)
\* runs of the weekly pipeline that are followed
MaxRuns == 2

\* MIN_REVIEW_LENGTH of _load_config
min_review_length == 100

\* what the scraper hands to a run: a long review, a short one with an
\* address, and one that fails the schema; all dated inside the window
RunReviews == {r \in RawReviews : r.reviewId \in {"rev1", "rev2", "rev6"}}

RunBatches == UNION {[1..n -> RunReviews] : n \in 0..MaxBatch}

\* len(clean_text(content)): rev1 stands for a review of 120 characters
CleanLength(review) == IF review.reviewId = "rev1" THEN 120 ELSE 11

\* the date and length filter of _run_layer1
LongEnough(review) == CleanLength(review) >= min_review_length

\* Layer1Pipeline.get_stats
get_stats(seen) ==
    [total_seen_reviews |-> Cardinality(seen), dedup_state_file |-> "dedup_state.json"]

\* the keys the closing log lines of _run_layer1 subscript
SubscriptedKeys == << "total_seen_reviews", "duplicates_filtered", "pii_flagged" >>

\* the statistics step of _run_layer1: stats[key] raises KeyError for the
\* first key the dictionary does not hold
stats_step(stats) ==
    LET Missing(k) == k \notin DOMAIN stats
        missing == SelectSeq(SubscriptedKeys, Missing)
    IN  IF missing = << >> THEN [raised |-> FALSE, error |-> ""]
        ELSE [raised |-> TRUE, error |-> Head(missing)]

KeySet(reviews) == {compute_hash(reviews[i]) : i \in DOMAIN reviews}

Layers == << "layer1", "layer2", "layer3", "layer4" >>

\* what _run_layer2, _run_layer3 and send_pulse_email can end with
LayerOutcomes == {"ok", "raises"}
DeliveryOutcomes == {"SENT", "ERROR", "BLOCKED", "DRY_RUN", "raises"}

\* the except clause is missing: the run goes on to the next layer
run_report_no_except(n, l1, collected, l2, l3, l4) ==
    [status |-> IF l4 = "raises" THEN "FAILED" ELSE "SUCCESS",
     error |-> IF l4 = "raises" THEN "layer4" ELSE "",
     failed_in |-> IF l1.raised \/ collected = << >> THEN "layer1"
                   ELSE IF l2 = "raises" THEN "layer2"
                   ELSE IF l3 = "raises" THEN "layer3"
                   ELSE IF l4 = "raises" THEN "layer4" ELSE "none",
     layers |-> Layers,
     pulse_document |-> IF l4 = "raises" THEN 0 ELSE n,
     delivery |-> IF l4 = "raises" THEN "none" ELSE l4,
     saved |-> n]

\* the body of run from the return of _run_layer1 on: the report, the layers
\* entered, and the document _run_layer3 saved (0: none)
run_report(n, l1, collected, l2, l3, l4) ==
    LET Failed(layer, msg, upto) ==
            [status |-> "FAILED", error |-> msg, failed_in |-> layer,
             layers |-> SubSeq(Layers, 1, upto), pulse_document |-> 0,
             delivery |-> "none", saved |-> IF upto = 4 THEN n ELSE 0]
    IN  IF l1.raised THEN Failed("layer1", l1.error, 1)
        ELSE IF collected = << >>
            THEN Failed("layer1", "No valid reviews collected. Cannot proceed.", 1)
        ELSE IF l2 = "raises" THEN Failed("layer2", "layer2", 2)
        ELSE IF l3 = "raises" THEN Failed("layer3", "layer3", 3)
        ELSE IF l4 = "raises" THEN Failed("layer4", "layer4", 4)
        ELSE [status |-> "SUCCESS", error |-> "", failed_in |-> "none",
              layers |-> Layers, pulse_document |-> n, delivery |-> l4,
              saved |-> n]

\* one call of run: _run_layer1 builds a Layer1Pipeline (a Deduplicator that
\* loads the state file), processes the batch the scraper has, filters it by
\* date and length and logs the statistics; then layers 2 to 4
run(fetched, fetch_ok, read_ok, outcome) ==
    /\ Len(run_log) < MaxRuns
    /\ LET n == Len(run_log) + 1
           loaded == load_state(read_ok)
           raw == IF fetch_ok THEN fetched ELSE << >>
           flagged == flag_pii_reviews(validate_batch(raw))
           r == FilterLoop(flagged, 1,
                           [unique |-> << >>, new_ids |-> << >>, seen |-> loaded])
           batch == IF raw = << >> THEN << >> ELSE r.unique
           all_reviews == SelectSeq(batch, LongEnough)
           seen == IF raw = << >> THEN loaded ELSE r.seen
           l1 == stats_step(get_stats(seen))
       IN  /\ raw_reviews' = raw
           /\ stdout' = PrintInvalid(raw)
           /\ batch_result' = [reviews |-> batch,
                               token |-> IF fetch_ok THEN "token" ELSE "None"]
           /\ seen_ids' = seen
           /\ IF raw # << >> /\ r.new_ids # << >>
              THEN /\ state_file' = save_state(seen, outcome)
                   /\ last_save_ok' = (outcome = "ok")
              ELSE /\ outcome = "ok"
                   /\ state_file' = state_file
                   /\ last_save_ok' = TRUE
           /\ \E l2 \in IF l1.raised \/ all_reviews = << >>
                        THEN {"ok"} ELSE LayerOutcomes :
              \E l3 \in IF l1.raised \/ all_reviews = << >> \/ l2 = "raises"
                        THEN {"ok"} ELSE LayerOutcomes :
              \E l4 \in IF l1.raised \/ all_reviews = << >> \/ l2 = "raises"
                           \/ l3 = "raises"
                        THEN {"SENT"} ELSE DeliveryOutcomes :
                LET report == run_report(n, l1, all_reviews, l2, l3, l4)
                IN  /\ run_log' = Append(run_log,
                            [status |-> report.status, error |-> report.error,
                             failed_in |-> report.failed_in,
                             layers |-> report.layers,
                             pulse_document |-> report.pulse_document,
                             delivery |-> report.delivery,
                             fetched |-> KeySet(validate_batch(raw)),
                             accepted |-> KeySet(batch),
                             collected |-> KeySet(all_reviews)])
                    /\ artifact' = IF report.saved # 0 THEN report.saved ELSE artifact
    /\ UNCHANGED << last_batch, last_unique, accepted, d_trace, call_io, overlap_io, demo_io >>
    /\ UNCHANGED << send_vars, caller_vars, ledger_vars, theme_vars >>

InitRun ==
    /\ IdleCaller /\ EmptyLedger /\ IdleDedup /\ IdleThemes
    /\ max_retries = DefaultMaxRetries
    /\ smtp_ok = FALSE
    /\ d_pc = "idle"
    /\ attempt = 0
    /\ metadata = << >>
    /\ send_status = ""
    /\ send_error = ""
    /\ events = << >>

NextRun ==
    \E fetched \in RunBatches, fetch_ok \in BOOLEAN, read_ok \in BOOLEAN,
       outcome \in SaveOutcomes :
        run(fetched, fetch_ok, read_ok, outcome)

SpecRun == InitRun /\ [][NextRun]_vars

(***************************************************************************)
(* C22: a failure raised in layer 1, 2 or 3 ends the run: the layers after *)
(* it are not entered, no delivery is attempted, and the report has status *)
(* FAILED and an error message. A delivery that ends ERROR or BLOCKED      *)
(* leaves the saved PulseDocument as it is, and run returns the document.  *)
(***************************************************************************)
LayerIndex(layer) == CHOOSE k \in DOMAIN Layers : Layers[k] = layer

C26_AcceptedAgainAfterFailure ==
    \A i \in DOMAIN run_log :
        (i > 1 /\ run_log[i - 1].status = "FAILED") =>
            \A k \in run_log[i - 1].accepted \cap run_log[i].fetched :
                k \in run_log[i].accepted

(***************************************************************************)
(* C27: a run whose Layer 1 collected at least one valid review goes on    *)
(* to Layer 2; the statistics step of _run_layer1 does not raise.          *)
(***************************************************************************)
C27_ProceedsToLayer2 ==
    \A i \in DOMAIN run_log :
        run_log[i].collected # {} => Len(run_log[i].layers) >= 2

(***************************************************************************)
(* The text-generation call sites: ThemeLabeler.label_cluster,             *)
(* ThemeSummarizer.summarize, ActionIdeaGenerator.generate                 *)
(***************************************************************************)
\* lines of a reply that are followed
MaxLines == 4

\* the words of the reviews, their lengths and their capitalize()
Vocabulary == {"login", "crash", "slow", "the", "app"}
stopwords == {"the"}
WordLen == [w \in Vocabulary |-> CASE w \in {"login", "crash"} -> 5
                                   [] w = "slow" -> 4
                                   [] OTHER -> 3]
capitalize ==
    [login |-> "Login", crash |-> "Crash", slow |-> "Slow", the |-> "The", app |-> "App"]

\* review texts as word lists, and the representative reviews of a cluster
ReviewTexts == {<< "login", "crash", "login" >>, << "crash", "slow" >>, << "the", "app" >>}
Clusters == UNION {[1..n -> ReviewTexts] : n \in 0..2}

RECURSIVE JoinWords(_)
JoinWords(texts) ==
    IF texts = << >> THEN << >> ELSE Head(texts) \o JoinWords(Tail(texts))

CountOf(ws, w) == Cardinality({i \in DOMAIN ws : ws[i] = w})

\* the distinct words in the order of their first occurrence
RECURSIVE FirstOccurrences(_, _)
FirstOccurrences(ws, i) ==
    IF i > Len(ws) THEN << >>
    ELSE IF \E j \in 1..(i - 1) : ws[j] = ws[i] THEN FirstOccurrences(ws, i + 1)
    ELSE << ws[i] >> \o FirstOccurrences(ws, i + 1)

\* one step of the stable sort by count, largest first
RECURSIVE InsertByCount(_, _, _)
InsertByCount(done, w, ws) ==
    IF done = << >> THEN << w >>
    ELSE IF CountOf(ws, Head(done)) >= CountOf(ws, w)
         THEN << Head(done) >> \o InsertByCount(Tail(done), w, ws)
         ELSE << w >> \o done

RECURSIVE most_common(_, _)
most_common(distinct, ws) ==
    IF distinct = << >> THEN << >>
    ELSE InsertByCount(most_common(SubSeq(distinct, 1, Len(distinct) - 1), ws),
                       distinct[Len(distinct)], ws)

\* ThemeLabeler._fallback_labeling: the two most frequent keywords
fallback_labeling(reviews) ==
    LET words == JoinWords(SubSeq(reviews, 1, IF Len(reviews) < 5 THEN Len(reviews) ELSE 5))
        Keyword(w) == w \notin stopwords /\ WordLen[w] > 3
        filtered_words == SelectSeq(words, Keyword)
        ranked == most_common(FirstOccurrences(filtered_words, 1), filtered_words)
        top == SubSeq(ranked, 1, IF Len(ranked) < 2 THEN Len(ranked) ELSE 2)
    IN  IF top = << >>
        THEN [theme_name |-> << "General", "Feedback" >>,
              description |-> << "Reviews", "discussing", "general", "feedback" >>]
        ELSE [theme_name |-> [i \in DOMAIN top |-> capitalize[top[i]]],
              description |-> << "Reviews", "discussing" >> \o top]

\* what the service can do at label_cluster: not configured, raise, or reply
\* with no text, text that is no JSON, JSON that is no object, an object
\* without theme_name, an object with both keys
LabelReplies ==
    {"unavailable", "raises", "none", "empty", "not_json", "json_list",
     "json_no_name", "json_ok"}

\* ThemeLabeler.label_cluster
label_cluster_call(representative, reply) ==
    CASE reply \in {"unavailable", "raises", "not_json", "json_list"} ->
             fallback_labeling(representative)
      [] reply \in {"none", "empty", "json_no_name"} ->
             [theme_name |-> << "Unknown", "Theme" >>, description |-> << >>]
      [] reply = "json_ok" ->
             [theme_name |-> << "Login", "Issues" >>,
              description |-> << "Users", "cannot", "sign", "in" >>]

\* the ratings of the reviews of a theme
Ratings == UNION {[1..n -> {1, 3, 5}] : n \in 0..2}

RECURSIVE SumSeq(_)
SumSeq(xs) == IF xs = << >> THEN 0 ELSE Head(xs) + SumSeq(Tail(xs))

\* ThemeSummarizer._fallback_summary: the templated sentence
fallback_summary(theme_name, ratings) ==
    LET count == Len(ratings)
        total == IF count > 0 THEN SumSeq(ratings) ELSE 3
        per == IF count > 0 THEN count ELSE 1
        sentiment == IF total >= 4 * per THEN "positive"
                     ELSE IF total < 3 * per THEN "negative" ELSE "mixed"
    IN  << [src |-> "template", count |-> count, sentiment |-> sentiment,
            about |-> theme_name] >>

\* a sentence of the reply
Sentence(i) == [src |-> "llm", count |-> i, sentiment |-> "", about |-> ""]

\* replies at summarize: not configured, raise, no text, or k sentences
SummaryReplies ==
    {[kind |-> k, sentences |-> 0] : k \in {"unavailable", "raises", "none"}}
    \cup {[kind |-> "text", sentences |-> k] : k \in 0..3}

\* ThemeSummarizer.summarize: the summary as a list of sentences
summarize(theme_name, ratings, reply) ==
    IF reply.kind \in {"unavailable", "raises"}
    THEN fallback_summary(theme_name, ratings)
    ELSE LET summary == [i \in 1..reply.sentences |-> Sentence(i)]
         IN  IF Len(summary) > 2 THEN SubSeq(summary, 1, 2) ELSE summary

\* the themes handed to generate
ThemeLists ==
    {SubSeq(<< "KYC Delays", "Payments", "Speed", "Other" >>, 1, n) : n \in 0..4}

\* the lines of a reply at generate: "ACTION n: ...", a line of more than 20
\* characters, a shorter one, a line that starts with Step
Lines == {"action", "long", "short", "step"}

ActionReplies ==
    {[kind |-> k, lines |-> << >>] : k \in {"unavailable", "raises", "none"}}
    \cup {[kind |-> "text", lines |-> ls] :
            ls \in UNION {[1..n -> Lines] : n \in 0..MaxLines}}

FirstN(xs, n) == SubSeq(xs, 1, IF Len(xs) < n THEN Len(xs) ELSE n)

\* ActionIdeaGenerator._parse_actions
parse_actions(lines) ==
    LET IsAction(l) == l = "action"
        IsLong(l) == l = "long"
        Parsed(ls) == [i \in DOMAIN ls |-> [src |-> "llm", theme |-> ""]]
        structured == SelectSeq(lines, IsAction)
    IN  IF structured # << >> THEN Parsed(structured)
        ELSE Parsed(FirstN(SelectSeq(lines, IsLong), 3))

\* ActionIdeaGenerator._fallback_actions: one templated action per theme
fallback_actions(theme_list) ==
    [i \in DOMAIN FirstN(theme_list, 3) |-> [src |-> "template", theme |-> theme_list[i]]]

\* ActionIdeaGenerator.generate
generate(theme_list, reply) ==
    IF reply.kind \in {"unavailable", "raises"} THEN fallback_actions(theme_list)
    ELSE LET actions == parse_actions(reply.lines)
             filled == IF Len(actions) < 3
                       THEN actions \o FirstN(fallback_actions(theme_list), 3 - Len(actions))
                       ELSE actions
         IN  FirstN(filled, 3)

call_label_cluster(representative, reply) ==
    /\ last_call.site = "none"
    /\ last_call' = [site |-> "label_cluster", input |-> representative,
                    reply |-> reply,
                    result |-> label_cluster_call(representative, reply)]
    /\ UNCHANGED << seen_ids, state_file, last_save_ok, last_batch, last_unique,
                    accepted, d_trace, ingest_io, run_io, overlap_io, demo_io >>
    /\ UNCHANGED << send_vars, caller_vars, ledger_vars, theme_vars >>

call_summarize(ratings, reply) ==
    /\ last_call.site = "none"
    /\ last_call' = [site |-> "summarize", input |-> ratings, reply |-> reply,
                    result |-> summarize("KYC Delays", ratings, reply)]
    /\ UNCHANGED << seen_ids, state_file, last_save_ok, last_batch, last_unique,
                    accepted, d_trace, ingest_io, run_io, overlap_io, demo_io >>
    /\ UNCHANGED << send_vars, caller_vars, ledger_vars, theme_vars >>

call_generate(theme_list, reply) ==
    /\ last_call.site = "none"
    /\ last_call' = [site |-> "generate", input |-> theme_list, reply |-> reply,
                    result |-> generate(theme_list, reply)]
    /\ UNCHANGED << seen_ids, state_file, last_save_ok, last_batch, last_unique,
                    accepted, d_trace, ingest_io, run_io, overlap_io, demo_io >>
    /\ UNCHANGED << send_vars, caller_vars, ledger_vars, theme_vars >>

NextLLM ==
    \/ \E representative \in Clusters, reply \in LabelReplies :
          call_label_cluster(representative, reply)
    \/ \E ratings \in Ratings, reply \in SummaryReplies :
          call_summarize(ratings, reply)
    \/ \E theme_list \in ThemeLists, reply \in ActionReplies :
          call_generate(theme_list, reply)

SpecLLM == InitRun /\ [][NextLLM]_vars

(***************************************************************************)
(* C23: when the service is unavailable, raises, or replies with empty or  *)
(* malformed output, each of the three call sites returns its heuristic    *)
(* fallback value: keyword naming, templated summary, templated actions.   *)
(***************************************************************************)
C23_FallbackOnBadReply ==
    /\ (last_call.site = "label_cluster" /\ last_call.reply # "json_ok") =>
          last_call.result = fallback_labeling(last_call.input)
    /\ (last_call.site = "summarize"
           /\ (last_call.reply.kind # "text" \/ last_call.reply.sentences = 0)) =>
          last_call.result = fallback_summary("KYC Delays", last_call.input)
    /\ (last_call.site = "generate"
           /\ (last_call.reply.kind # "text"
                  \/ \A i \in DOMAIN last_call.reply.lines :
                        last_call.reply.lines[i] # "action")) =>
          last_call.result = fallback_actions(last_call.input)

(***************************************************************************)
(* C24: ActionIdeaGenerator.generate returns exactly 3 actions for every   *)
(* input, whatever the service does.                                       *)
(***************************************************************************)
C24_ExactlyThreeActions ==
    last_call.site = "generate" => Len(last_call.result) = 3

(***************************************************************************)
(* QuoteExtractor.extract                                                  *)
(***************************************************************************)
\* reviews of a theme that are followed
MaxThemeReviews == 7

\* QuoteExtractor.__init__ defaults
quotes_per_theme == 3
min_quote_chars == 50

\* a review of the theme: theme_confidence and the length of the stripped text
ThemeReview(confidence, length) == [theme_confidence |-> confidence, length |-> length]

\* a confident short review, a confident long one, a less confident long one
ThemeReviewKinds == {ThemeReview(2, 10), ThemeReview(2, 60), ThemeReview(1, 60)}

ThemeReviewLists == UNION {[1..n -> ThemeReviewKinds] : n \in 0..MaxThemeReviews}

\* positions of the reviews, highest theme_confidence first, equal
\* confidences in input order: sorted(..., reverse=True) is stable
RECURSIVE InsertByConfidence(_, _, _)
InsertByConfidence(done, i, reviews) ==
    IF done = << >> THEN << i >>
    ELSE IF reviews[Head(done)].theme_confidence >= reviews[i].theme_confidence
         THEN << Head(done) >> \o InsertByConfidence(Tail(done), i, reviews)
         ELSE << i >> \o done

RECURSIVE sorted_reviews(_, _)
sorted_reviews(reviews, n) ==
    IF n = 0 THEN << >>
    ELSE InsertByConfidence(sorted_reviews(reviews, n - 1), n, reviews)

\* QuoteExtractor.extract: the source positions of the quotes returned
extract(reviews) ==
    LET order == sorted_reviews(reviews, Len(reviews))
        examined == FirstN(order, quotes_per_theme * 2)
        Eligible(i) == reviews[i].length >= min_quote_chars
    IN  FirstN(SelectSeq(examined, Eligible), quotes_per_theme)

call_extract(reviews) ==
    /\ last_call.site = "none"
    /\ last_call' = [site |-> "extract", input |-> reviews, result |-> extract(reviews)]
    /\ UNCHANGED << seen_ids, state_file, last_save_ok, last_batch, last_unique,
                    accepted, d_trace, ingest_io, run_io, overlap_io, demo_io >>
    /\ UNCHANGED << send_vars, caller_vars, ledger_vars, theme_vars >>

NextExtract == \E reviews \in ThemeReviewLists : call_extract(reviews)

SpecExtract == InitRun /\ [][NextExtract]_vars

(***************************************************************************)
(* C30: extract returns min(quotes_per_theme, E) quotes, E the number of   *)
(* reviews of the theme with at least 50 characters of stripped text, and  *)
(* they are the eligible reviews of highest theme_confidence, in           *)
(* non-increasing confidence order, equal confidences in input order.      *)
(***************************************************************************)
EligibleByConfidence(reviews) ==
    LET Eligible(i) == reviews[i].length >= min_quote_chars
    IN  SelectSeq(sorted_reviews(reviews, Len(reviews)), Eligible)

C30_TopEligibleQuotes ==
    last_call.site = "extract" =>
        last_call.result = FirstN(EligibleByConfidence(last_call.input), quotes_per_theme)

(***************************************************************************)
(* C28: the attempts value of the ledger row send_pulse_email writes is    *)
(* the number of transport attempts made for the delivery: 0 for BLOCKED   *)
(* and for missing SMTP configuration, the loop's count otherwise.         *)
(***************************************************************************)
TransportAttempts == Cardinality({i \in DOMAIN events : events[i].kind = "attempt"})

C28_LedgerAttemptsAreAttemptsMade ==
    (entry = "send_pulse_email" /\ pc = "returned"
        /\ ret_status \in {"SENT", "ERROR", "BLOCKED"}) =>
            ledger[Len(ledger)].attempts = TransportAttempts

(***************************************************************************)
(* Pipeline invocations that share one dedup state file                    *)
(***************************************************************************)
\* invocations that are started
MaxStarts == 3

Running(p) == procs[p].pc = "running"

\* Deduplicator.__init__ of an invocation: the whole file is loaded, or
\* nothing when it cannot be read
invocation_start(p, read_ok) ==
    /\ procs[p].pc = "idle"
    /\ store_hist.starts < MaxStarts
    /\ procs' = [procs EXCEPT ![p] = [pc |-> "running", seen |-> load_state(read_ok)]]
    /\ store_hist' = [store_hist EXCEPT
                        !.starts = @ + 1,
                        !.io_failed = @ \/ (state_file.status = "ok" /\ ~read_ok),
                        !.overlapped = @ \/ \E q \in Invocations \ {p} : Running(q)]
    /\ UNCHANGED << seen_ids, state_file, last_save_ok, last_batch, last_unique,
                    accepted, d_trace, ingest_io, run_io, call_io, demo_io >>
    /\ UNCHANGED << send_vars, caller_vars, ledger_vars, theme_vars >>

\* filter_duplicates of an invocation: its own set decides, and the file is
\* rewritten whole from that set
invocation_filter(p, reviews, outcome) ==
    /\ Running(p)
    /\ LET r == FilterLoop(reviews, 1,
                           [unique |-> << >>, new_ids |-> << >>, seen |-> procs[p].seen])
       IN  /\ procs' = [procs EXCEPT ![p].seen = r.seen]
           /\ IF r.new_ids # << >>
              THEN /\ state_file' = save_state(r.seen, outcome)
                   /\ store_hist' = [store_hist EXCEPT
                          !.written = IF outcome = "ok" THEN @ \cup r.seen ELSE @,
                          !.io_failed = @ \/ outcome # "ok",
                          !.count = [k \in Keys |-> @[k] + Occurrences(r.new_ids, k)]]
              ELSE /\ outcome = "ok"
                   /\ UNCHANGED << state_file, store_hist >>
    /\ UNCHANGED << seen_ids, last_save_ok, last_batch, last_unique,
                    accepted, d_trace, ingest_io, run_io, call_io, demo_io >>
    /\ UNCHANGED << send_vars, caller_vars, ledger_vars, theme_vars >>

\* the invocation ends; its set is gone with the process
invocation_end(p) ==
    /\ Running(p)
    /\ procs' = [procs EXCEPT ![p] = [pc |-> "idle", seen |-> {}]]
    /\ UNCHANGED << seen_ids, state_file, last_save_ok, last_batch, last_unique,
                    accepted, d_trace, ingest_io, run_io, call_io, demo_io >>
    /\ UNCHANGED store_hist
    /\ UNCHANGED << send_vars, caller_vars, ledger_vars, theme_vars >>

NextOverlap ==
    \/ \E p \in Invocations, read_ok \in BOOLEAN : invocation_start(p, read_ok)
    \/ \E p \in Invocations, reviews \in Batches, outcome \in SaveOutcomes :
          invocation_filter(p, reviews, outcome)
    \/ \E p \in Invocations : invocation_end(p)

SpecOverlap == InitRun /\ [][NextOverlap]_vars

(***************************************************************************)
(* C25: invocations that overlap on one state file can lose keys that were *)
(* persisted (the other invocation rewrites the file from its own set) and *)
(* can accept the same review twice; invocations that run one after the    *)
(* other cannot.                                                           *)
(***************************************************************************)
\* a key that was written to the file is no longer in it
LostUpdate == ~(store_hist.written \subseteq state_file.ids)

\* a key was accepted more than once
DoubleAcceptance == \E k \in Keys : store_hist.count[k] >= 2

C25_UnsafeOnlyWhenOverlapping ==
    (LostUpdate \/ DoubleAcceptance) => store_hist.overlapped

\* both have happened to overlapping invocations whose reads and writes
\* all succeeded
C25_OverlapHazards ==
    /\ store_hist.overlapped /\ ~store_hist.io_failed
    /\ LostUpdate
    /\ DoubleAcceptance

\* with every read and write of the file succeeding, invocations that run
\* one after the other lose no key and accept no review twice
C25_SerializedSafeWhenFileWorks ==
    (LostUpdate \/ DoubleAcceptance) => (store_hist.overlapped \/ store_hist.io_failed)

(***************************************************************************)
(* The demo server: /api/run-pipeline and execute_pipeline                 *)
(***************************************************************************)
Requests == 1..MaxRequests

\* run_pipeline up to the test of execution_status['running']; the requests
\* are handled by one thread each
request_check(r) ==
    /\ demo.req[r] = "new"
    /\ demo' = [demo EXCEPT !.req[r] = IF demo.running THEN "rejected" ELSE "passed"]
    /\ UNCHANGED << seen_ids, state_file, last_save_ok, last_batch, last_unique,
                    accepted, d_trace, ingest_io, run_io, call_io, overlap_io >>
    /\ UNCHANGED << send_vars, caller_vars, ledger_vars, theme_vars >>

\* the rest of run_pipeline: request.json is read (a request without a JSON
\* body ends here with an error), the status is reset with running True,
\* and the execute_pipeline thread is started
request_start(r, has_json) ==
    /\ demo.req[r] = "passed"
    /\ demo' = IF has_json
               THEN [demo EXCEPT !.req[r] = "started", !.running = TRUE,
                                 !.stage = "Starting", !.threads = @ + 1]
               ELSE [demo EXCEPT !.req[r] = "failed"]
    /\ UNCHANGED << seen_ids, state_file, last_save_ok, last_batch, last_unique,
                    accepted, d_trace, ingest_io, run_io, call_io, overlap_io >>
    /\ UNCHANGED << send_vars, caller_vars, ledger_vars, theme_vars >>

\* an execute_pipeline thread ends: with the report of run, or in its
\* except clause
execute_pipeline_end(raised) ==
    /\ demo.threads > 0
    /\ demo' = [demo EXCEPT !.running = FALSE, !.threads = @ - 1,
                            !.stage = IF raised THEN "Error" ELSE "Complete"]
    /\ UNCHANGED << seen_ids, state_file, last_save_ok, last_batch, last_unique,
                    accepted, d_trace, ingest_io, run_io, call_io, overlap_io >>
    /\ UNCHANGED << send_vars, caller_vars, ledger_vars, theme_vars >>

NextDemo ==
    \/ \E r \in Requests : request_check(r)
    \/ \E r \in Requests, has_json \in BOOLEAN : request_start(r, has_json)
    \/ \E raised \in BOOLEAN : execute_pipeline_end(raised)

SpecDemo == InitRun /\ [][NextDemo]_vars

(***************************************************************************)
(* C29: the demo server runs at most one pipeline execution at a time,     *)
(* whatever the interleaving of the requests; the running flag is false    *)
(* again when the run has ended.                                           *)
(***************************************************************************)
C29_AtMostOneExecution ==
    /\ demo.threads <= 1
    /\ demo.threads = 0 => (demo.running = FALSE \/ demo.stage = "")

=============================================================================
